---- MODULE Spec2Model ----
(***************************************************************************)
(* A model of fdemanager's daemon control plane:                           *)
(*   - command.Run, the access gateway        (internal/daemon/command.go) *)
(*   - Overlord: New, Loop, ensureBefore, prune, Settle, Stop              *)
(*                                             (internal/overlord)         *)
(*   - Daemon: New, Start, HandleRestart, Stop (internal/daemon/daemon.go) *)
(* Time is a discrete clock `now`; a time.Timer is a record with its       *)
(* armed flag, the instant it is due and its one-slot channel.             *)
(***************************************************************************)
EXTENDS Integers, Sequences, FiniteSets, TLC

\* ------------------------------------------------------------------ bounds
\* the clock runs from 1 (0 is the zero time.Time) up to MaxTime
MaxTime == 4
\* the longest duration passed to EnsureBefore
MaxDuration == 2
\* how many times Overlord.Stop may be called
MaxStops == 2
\* how many per-cycle errors Settle may collect
MaxErrs == 1
\* the longest Settle timeout tried (0 means no timeout)
MaxTimeout == 2
\* number of connections the daemon may see
MaxConns == 3
\* Close calls on one listener
MaxCloses == 4

\* ------------------------------------------------------- program constants
\* ensureInterval, in clock units
ensureInterval == 2
\* HTTP status codes of the error responders
statusUnauthorizedCode == 401
statusMethodNotAllowedCode == 405
statusInternalErrorCode == 500

VARIABLES
    \* command.Run: the last request served, the command it was routed to,
    \* and what Run did with it
    runCmd, runReq, runRes,
    \* the peer address string last produced or received, how it was made,
    \* and what ucrednetGet returned for it
    peer,
    \* the clock
    now,
    \* the file system and lock environment overlord.New runs in
    fs,
    \* the descriptors inherited through service activation, the socket path
    \* and what GetUnixSocketListener returned
    sock,
    \* the Overlord built by New: "none" before New, "ok", or "err"
    ovlNew,
    \* the Overlord's fields
    o,
    \* the ensure loop goroutine: "none", "top", "ensure", "select", "prune",
    \* "pruning", "exited"
    loopPc,
    \* the prune ticker's channel holds a tick
    pruneTickC,
    \* Overlord.Stop: "idle", "waiting", "prune", "pruning", "engine",
    \* "returned"; number of calls so far
    stopPc, stopCalls,
    \* Settle: position, locals and result
    settle,
    \* the changes of the state engine: id -> "doing" | "ready" | "clean"
    changes,
    \* the kind of work queued: its task handler and the d it passes
    work,
    \* history of the Overlord: what ran, for the claims
    hist,
    \* the process panicked
    panicked,
    \* the Daemon's fields and the position of Daemon.Stop
    d, dStop,
    \* the standby coordinator goroutine: "off", "polling", "requesting", "stopped"
    standbyPc,
    \* the last operation on the ensure schedule (ensureTimerSetup,
    \* ensureTimerReset, ensureBefore and the branch it took)
    op

vars == <<runCmd, runReq, runRes, peer, now, fs, sock, ovlNew, o, loopPc, pruneTickC,
          stopPc, stopCalls, settle, changes, work, hist, panicked, d, dStop,
          standbyPc, op>>

cmdVars == <<runCmd, runReq, runRes, peer>>
ovlVars == <<now, fs, sock, ovlNew, o, loopPc, pruneTickC, stopPc, stopCalls,
             settle, changes, work, hist, panicked>>
daemonVars == <<d, dStop, standbyPc>>

Max(a, b) == IF a >= b THEN a ELSE b
Min(a, b) == IF a <= b THEN a ELSE b

\* ============================================================ ucrednet ====

\* strings are sequences of characters
DigitChars == <<"0", "1", "2", "3", "4", "5", "6", "7", "8", "9">>
DigitSet == {DigitChars[i] : i \in 1..10}
DigitOf(n) == DigitChars[n + 1]
DigitVal(c) == CHOOSE n \in 0..9 : DigitChars[n + 1] = c

\* a 32-bit number is kept as hi * Half + lo
Half == 100000
MaxUint32 == [hi |-> 42949, lo |-> 67295]
MaxInt32 == [hi |-> 21474, lo |-> 83647]
NumLeq(a, b) == a.hi < b.hi \/ (a.hi = b.hi /\ a.lo <= b.lo)

RECURSIVE DecSmall(_)
\* %d of a number below Half
DecSmall(n) ==
    IF n < 10 THEN <<DigitOf(n)>>
    ELSE Append(DecSmall(n \div 10), DigitOf(n % 10))

RECURSIVE Zeros(_)
Zeros(n) == IF n <= 0 THEN <<>> ELSE <<"0">> \o Zeros(n - 1)

\* %d of a 32-bit number
FormatNum(v) ==
    IF v.hi = 0 THEN DecSmall(v.lo)
    ELSE DecSmall(v.hi) \o Zeros(5 - Len(DecSmall(v.lo))) \o DecSmall(v.lo)

RECURSIVE DigitsVal(_)
\* the value of at most five digits
DigitsVal(ds) ==
    IF ds = <<>> THEN 0
    ELSE 10 * DigitsVal(SubSeq(ds, 1, Len(ds) - 1)) + DigitVal(ds[Len(ds)])

RECURSIVE StripZeros(_)
StripZeros(ds) ==
    IF Len(ds) > 1 /\ ds[1] = "0" THEN StripZeros(Tail(ds)) ELSE ds

\* strconv.ParseInt/ParseUint of a digit string into a width with maximum
\* max: a range error above it
ParseNum(ds, max) ==
    LET z == StripZeros(ds)
        n == Len(z)
        v == [hi |-> IF n > 5 THEN DigitsVal(SubSeq(z, 1, n - 5)) ELSE 0,
              lo |-> IF n > 5 THEN DigitsVal(SubSeq(z, n - 4, n)) ELSE DigitsVal(z)]
    IN IF n > 10 \/ ~NumLeq(v, max)
       THEN [ok |-> FALSE, v |-> max]
       ELSE [ok |-> TRUE, v |-> v]

PidEq == <<"p", "i", "d", "=">>
UidEq == <<";", "u", "i", "d", "=">>
SocketEq == <<";", "s", "o", "c", "k", "e", "t", "=">>
Semi == <<";">>

HasPrefix(s, p) == Len(s) >= Len(p) /\ SubSeq(s, 1, Len(p)) = p
Drop(s, n) == SubSeq(s, n + 1, Len(s))

RECURSIVE DigitRunLen(_)
DigitRunLen(s) ==
    IF s = <<>> \/ s[1] \notin DigitSet THEN 0 ELSE 1 + DigitRunLen(Tail(s))

RECURSIVE NoSemiRunLen(_)
NoSemiRunLen(s) ==
    IF s = <<>> \/ s[1] = ";" THEN 0 ELSE 1 + NoSemiRunLen(Tail(s))

NilIdentity == [nil |-> TRUE]
Identity(pid, uid, socket) ==
    [nil |-> FALSE, Pid |-> pid, Uid |-> uid, Socket |-> socket]

\* a formatter that leaves the socket address out
ucrednetStringNoSocket(id) ==
    IF id.nil THEN PidEq \o UidEq \o SocketEq \o Semi
    ELSE PidEq \o FormatNum(id.Pid) \o UidEq \o FormatNum(id.Uid)
         \o SocketEq \o Semi

\* the address string of a connection: each field once, in order, each
\* closed by a semicolon; a connection without credentials has empty fields
ucrednetString(id) ==
    IF id.nil THEN PidEq \o UidEq \o SocketEq \o Semi
    ELSE PidEq \o FormatNum(id.Pid) \o UidEq \o FormatNum(id.Uid)
         \o SocketEq \o id.Socket \o Semi

NoMatch == [ok |-> FALSE, pid |-> <<>>, uid |-> <<>>, socket |-> <<>>]

\* the grammar of the address string, matched exactly from the first to
\* the last character: pid=<digits>;uid=<digits>;socket=<no semicolon>;
raddrMatch(s) ==
    IF ~HasPrefix(s, PidEq) THEN NoMatch ELSE
    LET s1 == Drop(s, Len(PidEq))
        n1 == DigitRunLen(s1)
        s2 == Drop(s1, n1)
    IN IF n1 = 0 \/ ~HasPrefix(s2, UidEq) THEN NoMatch ELSE
    LET s3 == Drop(s2, Len(UidEq))
        n2 == DigitRunLen(s3)
        s4 == Drop(s3, n2)
    IN IF n2 = 0 \/ ~HasPrefix(s4, SocketEq) THEN NoMatch ELSE
    LET s5 == Drop(s4, Len(SocketEq))
        n3 == NoSemiRunLen(s5)
    IN IF Drop(s5, n3) # Semi THEN NoMatch
       ELSE [ok |-> TRUE, pid |-> SubSeq(s1, 1, n1), uid |-> SubSeq(s3, 1, n2),
             socket |-> SubSeq(s5, 1, n3)]

errNoID == [id |-> NilIdentity, err |-> "errNoID"]

\* a parser that keeps what it could read when the uid is out of range
ucrednetGetKeepsPid(s) ==
    LET mt == raddrMatch(s)
        pid == ParseNum(mt.pid, MaxInt32)
        uid == ParseNum(mt.uid, MaxUint32)
    IN IF ~mt.ok \/ ~pid.ok THEN errNoID
       ELSE [id |-> Identity(pid.v, uid.v, mt.socket),
             err |-> IF uid.ok THEN "nil" ELSE "errNoID"]

\* ucrednetGet: the identity in an address string, or nil and errNoID
ucrednetGet(s) ==
    LET mt == raddrMatch(s)
        pid == ParseNum(mt.pid, MaxInt32)
        uid == ParseNum(mt.uid, MaxUint32)
    IN IF ~mt.ok \/ ~pid.ok \/ ~uid.ok THEN errNoID
       ELSE [id |-> Identity(pid.v, uid.v, mt.socket), err |-> "nil"]

\* credentials a connection can carry (ConnPeerCred takes pid 0 and uid
\* 2^32-1 as no credential) and socket addresses, one of them holding a
\* second block of fields
Pids == {[hi |-> 0, lo |-> 1], [hi |-> 0, lo |-> 100], MaxInt32}
Uids == {[hi |-> 0, lo |-> 0], [hi |-> 0, lo |-> 42], [hi |-> 1, lo |-> 7],
         [hi |-> 42949, lo |-> 67294]}
RunSocket == <<"/", "r">>
SneakBlock == Semi \o PidEq \o <<"0">> \o UidEq \o <<"0">> \o SocketEq \o <<"/", "t">>
Sockets == {<<>>, RunSocket, RunSocket \o SneakBlock}
Identities == {Identity(p, u, k) : p \in Pids, u \in Uids, k \in Sockets}

\* the strings the malformed inputs are built from
PidStrings == {<<"1">>, <<"1", "0", "0">>}
TooBig == <<"4", "2", "9", "4", "9", "6", "7", "2", "9", "6">>
BadUidStrings == [emptyuid |-> {<<>>},
                  biguid |-> {TooBig, TooBig \o <<"0">>, <<"9">> \o TooBig}]
GoodUidStrings == {<<"0">>, <<"4", "2">>}
PlainSockets == {<<>>, RunSocket}
Hello == <<"h", "e", "l", "l", "o">>

\* malformed address strings by the way they are malformed
Malformed ==
    [empty |-> {<<>>},
     nogrammar |-> {Hello, Hello \o Semi, PidEq, Tail(PidEq) \o <<"1">>}
        \cup {PidEq \o p \o UidEq \o u \o SocketEq \o k :
                p \in PidStrings, u \in GoodUidStrings, k \in PlainSockets}
        \cup {<<" ">> \o PidEq \o p \o UidEq \o u \o SocketEq \o Semi :
                p \in PidStrings, u \in GoodUidStrings},
     emptyuid |-> {PidEq \o p \o UidEq \o u \o SocketEq \o k \o Semi :
                p \in PidStrings, u \in BadUidStrings.emptyuid, k \in PlainSockets},
     biguid |-> {PidEq \o p \o UidEq \o u \o SocketEq \o k \o Semi :
                p \in PidStrings, u \in BadUidStrings.biguid, k \in PlainSockets},
     sneak |-> {PidEq \o p \o UidEq \o u \o SocketEq \o k \o SneakBlock \o t :
                p \in PidStrings, u \in GoodUidStrings, k \in PlainSockets,
                t \in {<<>>, Semi}}]

MalformedKinds == DOMAIN Malformed

NotCalled == [id |-> NilIdentity, err |-> "not called"]
\* the last Accept of the credential listener: what the wrapped listener
\* returned (lerr), the connection's type, what getUcred returned (uerr), and
\* Accept's own result (a connection or an error)
NoAccept ==
    [called |-> FALSE, lerr |-> "nil", connType |-> "unix", uerr |-> "nil",
     conn |-> FALSE, err |-> "nil"]
NoPeer ==
    [kind |-> "none", id |-> NilIdentity, addr |-> <<>>, got |-> NotCalled,
     accept |-> NoAccept]

\* errors of the wrapped listener's Accept, connection types, errors of the
\* peer credential lookup
ListenerErrs == {"nil", "use of closed network connection"}
ConnTypes == {"unix", "tcp"}
UcredErrs == {"nil", "oopsie"}

\* an Accept that refuses connections without peer credentials
ucrednetAcceptRefusesNonUnix(lerr, connType, uerr, id) ==
    IF lerr # "nil" THEN [conn |-> FALSE, id |-> NilIdentity, err |-> lerr]
    ELSE IF connType # "unix" THEN [conn |-> FALSE, id |-> NilIdentity, err |-> "not unix"]
    ELSE IF uerr # "nil" THEN [conn |-> FALSE, id |-> NilIdentity, err |-> uerr]
    ELSE [conn |-> TRUE, id |-> id, err |-> "nil"]

\* an Accept that goes on without an identity when the lookup fails
ucrednetAcceptDropsUcredErr(lerr, connType, uerr, id) ==
    IF lerr # "nil" THEN [conn |-> FALSE, id |-> NilIdentity, err |-> lerr]
    ELSE IF connType # "unix" \/ uerr # "nil"
    THEN [conn |-> TRUE, id |-> NilIdentity, err |-> "nil"]
    ELSE [conn |-> TRUE, id |-> id, err |-> "nil"]

\* ucrednetListener.Accept as its tests fix it: the wrapped listener's error
\* is returned; a connection that is no unix connection is returned without
\* an identity; the lookup's error is returned; else the connection carries
\* the identity found
ucrednetAccept(lerr, connType, uerr, id) ==
    IF lerr # "nil" THEN [conn |-> FALSE, id |-> NilIdentity, err |-> lerr]
    ELSE IF connType # "unix" THEN [conn |-> TRUE, id |-> NilIdentity, err |-> "nil"]
    ELSE IF uerr # "nil" THEN [conn |-> FALSE, id |-> NilIdentity, err |-> uerr]
    ELSE [conn |-> TRUE, id |-> id, err |-> "nil"]

\* wl.Accept(), and conn.RemoteAddr().String() of the connection it returns
Accept ==
    /\ \E lerr \in ListenerErrs, connType \in ConnTypes, uerr \in UcredErrs,
          id \in Identities :
        LET res == ucrednetAccept(lerr, connType, uerr, id) IN
        peer' = [kind |-> IF res.conn THEN "accepted" ELSE "failed",
                 id |-> res.id,
                 addr |-> IF res.conn THEN ucrednetString(res.id) ELSE <<>>,
                 got |-> NotCalled,
                 accept |-> [called |-> TRUE, lerr |-> lerr, connType |-> connType,
                             uerr |-> uerr, conn |-> res.conn, err |-> res.err]]
    /\ UNCHANGED <<runCmd, runReq, runRes, op, ovlVars, daemonVars>>

\* conn.RemoteAddr().String() of a connection accepted by the credential
\* listener, with or without credentials
RemoteAddrString ==
    /\ \E id \in Identities \cup {NilIdentity} :
        peer' = [kind |-> "formatted", id |-> id, addr |-> ucrednetString(id),
                 got |-> NotCalled, accept |-> NoAccept]
    /\ UNCHANGED <<runCmd, runReq, runRes, op, ovlVars, daemonVars>>

\* an address string from anywhere else
TaintedAddr ==
    /\ \E k \in MalformedKinds : \E a \in Malformed[k] :
        peer' = [kind |-> k, id |-> NilIdentity, addr |-> a, got |-> NotCalled,
                 accept |-> NoAccept]
    /\ UNCHANGED <<runCmd, runReq, runRes, op, ovlVars, daemonVars>>

\* ucrednetGet(remoteAddr)
UcrednetGet ==
    /\ peer.kind \notin {"none", "failed"}
    /\ peer.got = NotCalled
    /\ peer' = [peer EXCEPT !.got = ucrednetGet(peer.addr)]
    /\ UNCHANGED <<runCmd, runReq, runRes, op, ovlVars, daemonVars>>

\* ======================================================== command.Run ====

Methods == {"GET", "PUT", "POST", "DELETE"}
\* an access checker slot: nil, or a checker that allows or denies
Checkers == {"nil", "allow", "deny"}
\* values of the allow-interaction header ("" is an absent header)
HeaderValues == {"", "1", "true", "0", "false", "yes"}

Commands == [GET : BOOLEAN, PUT : BOOLEAN, POST : BOOLEAN,
             ReadAccess : Checkers, WriteAccess : Checkers]
\* uids of peers: root and an ordinary user
PeerUids == {0, 1001}
\* a request: peerUid is the uid ConnPeerCred finds on the connection bound
\* to the context, contentUid a uid the request's own content names
Requests == [Method : Methods, hasConn : BOOLEAN, credErr : BOOLEAN,
             allowHeader : HeaderValues, peerUid : PeerUids,
             contentUid : PeerUids]

\* strconv.ParseBool: the accepted spellings, anything else is an error
ParseBool(s) ==
    IF s \in {"1", "t", "T", "TRUE", "true", "True"} THEN [value |-> TRUE, err |-> FALSE]
    ELSE IF s \in {"0", "f", "F", "FALSE", "false", "False"} THEN [value |-> FALSE, err |-> FALSE]
    ELSE [value |-> FALSE, err |-> TRUE]

\* makeErrorResponder(status)(msg)
apiError(status, msg) == [kind |-> "error", status |-> status, msg |-> msg]

\* a switch that checks PUT with the read checker
SelectHandlerPutReads(c, r) ==
    CASE r.Method = "GET"  -> [rspf |-> c.GET,  access |-> c.ReadAccess,  class |-> "read"]
      [] r.Method = "PUT"  -> [rspf |-> c.PUT,  access |-> c.ReadAccess,  class |-> "read"]
      [] r.Method = "POST" -> [rspf |-> c.POST, access |-> c.WriteAccess, class |-> "write"]
      [] OTHER             -> [rspf |-> FALSE,  access |-> "nil",         class |-> "none"]

\* the switch on r.Method: the responseFunc and accessChecker selected
SelectHandler(c, r) ==
    CASE r.Method = "GET"  -> [rspf |-> c.GET,  access |-> c.ReadAccess,  class |-> "read"]
      [] r.Method = "PUT"  -> [rspf |-> c.PUT,  access |-> c.WriteAccess, class |-> "write"]
      [] r.Method = "POST" -> [rspf |-> c.POST, access |-> c.WriteAccess, class |-> "write"]
      [] OTHER             -> [rspf |-> FALSE,  access |-> "nil",         class |-> "none"]

\* a flag that is set by any header value
AllowInteractionAnyValue(r) == r.allowHeader # ""

\* the allowInteraction flag computed from the header
AllowInteraction(r) ==
    IF r.allowHeader = "" THEN FALSE ELSE ParseBool(r.allowHeader).value

\* what a checker returns: nil, or the denial it builds
NilError == [kind |-> "nil"]
Denial(sel) == [kind |-> "denied", status |-> statusUnauthorizedCode, class |-> sel.class]
CheckAccess(sel) == IF sel.access = "deny" THEN Denial(sel) ELSE NilError

\* the call of access.CheckAccess, as a log entry
AccessCall(sel, r) ==
    [call |-> "CheckAccess", class |-> sel.class, ucred |-> r.peerUid,
     allowInteraction |-> AllowInteraction(r),
     returned |-> CheckAccess(sel)]

\* the call of the handler, as a log entry
HandlerCall(r) ==
    [call |-> "handler", verb |-> r.Method,
     returned |-> [kind |-> "handler", verb |-> r.Method]]

\* the handler is called without asking the access checker
CheckAndDispatchSkipsAccess(sel, r) ==
    [panic |-> FALSE, msg |-> "",
     rsp |-> [kind |-> "handler", verb |-> r.Method],
     log |-> <<HandlerCall(r)>>]

\* the code after the nil checks: the access check, then the handler
CheckAndDispatch(sel, r) ==
    IF CheckAccess(sel) # NilError
    THEN [panic |-> FALSE, msg |-> "", rsp |-> CheckAccess(sel), log |-> <<AccessCall(sel, r)>>]
    ELSE [panic |-> FALSE, msg |-> "",
          rsp |-> [kind |-> "handler", verb |-> r.Method],
          log |-> <<AccessCall(sel, r), HandlerCall(r)>>]

\* Dispatch without the nil check on the access checker
DispatchOpen(c, r) ==
    LET sel == SelectHandler(c, r) IN
    IF ~sel.rspf
    THEN [panic |-> FALSE, msg |-> "",
          rsp |-> apiError(statusMethodNotAllowedCode, "method not allowed"), log |-> <<>>]
    ELSE CheckAndDispatch(sel, r)

\* the nil checks on the selected handler and checker, then the dispatch
Dispatch(c, r) ==
    LET sel == SelectHandler(c, r) IN
    IF ~sel.rspf
    THEN [panic |-> FALSE, msg |-> "",
          rsp |-> apiError(statusMethodNotAllowedCode, "method not allowed"), log |-> <<>>]
    ELSE IF sel.access = "nil"
    THEN [panic |-> FALSE, msg |-> "",
          rsp |-> apiError(statusInternalErrorCode, "no access checker"), log |-> <<>>]
    ELSE CheckAndDispatch(sel, r)

\* netutil.ErrNoPeerCred, the error ConnPeerCred returns
ErrNoPeerCred == "connection has no peer credential"

\* the panic of logger.Panicf in command.Run
NoConnection == "no connection associated with request"

\* a Run that looks at the verb before it looks for the connection
RunVerbFirst(c, r) ==
    IF ~SelectHandler(c, r).rspf
    THEN Dispatch(c, r)
    ELSE IF ~r.hasConn
    THEN [panic |-> TRUE, msg |-> NoConnection, rsp |-> [kind |-> "none"], log |-> <<>>]
    ELSE IF r.credErr
    THEN [panic |-> FALSE, msg |-> "",
          rsp |-> apiError(statusInternalErrorCode, ErrNoPeerCred), log |-> <<>>]
    ELSE Dispatch(c, r)

\* a Run that goes on without the peer credential
RunIgnoresCredErr(c, r) ==
    IF ~r.hasConn
    THEN [panic |-> TRUE, msg |-> NoConnection, rsp |-> [kind |-> "none"], log |-> <<>>]
    ELSE Dispatch(c, r)

\* command.Run
Run(c, r) ==
    IF ~r.hasConn
    THEN [panic |-> TRUE, msg |-> NoConnection, rsp |-> [kind |-> "none"], log |-> <<>>]
    ELSE IF r.credErr
    THEN [panic |-> FALSE, msg |-> "",
          rsp |-> apiError(statusInternalErrorCode, ErrNoPeerCred), log |-> <<>>]
    ELSE Dispatch(c, r)

NoRequest ==
    [Method |-> "", hasConn |-> FALSE, credErr |-> FALSE, allowHeader |-> "",
     peerUid |-> 0, contentUid |-> 0]
NoCommand == [GET |-> FALSE, PUT |-> FALSE, POST |-> FALSE,
              ReadAccess |-> "nil", WriteAccess |-> "nil"]
NoResult == [panic |-> FALSE, msg |-> "", rsp |-> [kind |-> "none"], log |-> <<>>]

CmdInit ==
    /\ runCmd = NoCommand
    /\ runReq = NoRequest
    /\ runRes = NoResult
    /\ peer = NoPeer

\* commandDispatcher.ServeHTTP: one request run through command.Run
ServeHTTP ==
    \E r \in Requests :
        /\ runReq' = r
        /\ runRes' = Run(runCmd, r)
        /\ UNCHANGED <<runCmd, peer, op, ovlVars, daemonVars>>

\* ========================================================== time.Timer ====

Durations == 0..MaxDuration
Timeouts == 0..MaxTimeout

NilTimer == [nil |-> TRUE, active |-> FALSE, when |-> 0, c |-> FALSE]
\* time.NewTimer(dur): armed, due at now+dur, nothing in its channel
NewTimer(dur) == [nil |-> FALSE, active |-> TRUE, when |-> now + dur, c |-> FALSE]
\* t.Reset(dur): re-arms the timer; a tick already in the channel stays there
TimerReset(t, dur) == [t EXCEPT !.active = TRUE, !.when = now + dur]
\* t.Stop(): reports whether the timer was still armed, and disarms it
TimerStopResult(t) == t.active
TimerStop(t) == [t EXCEPT !.active = FALSE]
\* the runtime delivers a due timer: one tick into the one-slot channel
TimerDeliver(t) == [t EXCEPT !.active = FALSE, !.c = TRUE]

\* ======================================================== overlord.New ====

\* the state file on disk
StateFiles == {"absent", "valid", "corrupt", "unreadable"}
\* what New finds on disk: another process holds the lock file, the state
\* directory exists, the state file
FileSystems == [lockHeldElsewhere : BOOLEAN, dirExists : BOOLEAN, stateFile : StateFiles]
\* failures of the calls New makes: MkdirAll, restart.Manager, patch.Apply
Faults == [mkdirFails : BOOLEAN, restartInitFails : BOOLEAN, patchFails : BOOLEAN]

\* handles of failed New calls finalized in one behaviour
MaxFinalizes == 2

\* FileLock.Close: closes the file, which releases the lock; closing a
\* closed file only returns an error
FileLockClose(flock) == IF flock \in {"open", "locked"} THEN "closed" ELSE flock

\* initStateFileLock: MkdirAll of the lock file's directory (the state
\* directory), then NewFileLockWithMode opens the lock file
initStateFileLock(f, faults) ==
    IF faults.mkdirFails /\ ~f.dirExists
    THEN [err |-> "mkdir", flock |-> "nil", fs |-> f]
    ELSE [err |-> "", flock |-> "open", fs |-> [f EXCEPT !.dirExists = TRUE]]

\* what loadState does once it holds the lock
loadStateLocked(f, faults) ==
    IF f.stateFile = "absent"
    THEN IF ~f.dirExists THEN "fatal: directory must be present"
         ELSE IF faults.restartInitFails THEN "restart manager"
         ELSE ""
    ELSE IF f.stateFile = "unreadable" THEN "cannot read the state file"
    ELSE IF f.stateFile = "corrupt" THEN "cannot read state"
    ELSE IF faults.restartInitFails THEN "restart manager"
    ELSE IF faults.patchFails THEN "patch"
    ELSE ""

\* loadState without the TryLock failure path
loadStateIgnoresLock(f, faults) ==
    LET l == initStateFileLock(f, faults) IN
    IF l.err # ""
    THEN [err |-> "fatal: error opening lock file", flock |-> "nil", fs |-> l.fs]
    ELSE [err |-> loadStateLocked(l.fs, faults), flock |-> "locked", fs |-> l.fs]

\* Overlord.loadState: the lock file, TryLock, then the state
loadState(f, faults) ==
    LET l == initStateFileLock(f, faults) IN
    IF l.err # ""
    THEN [err |-> "fatal: error opening lock file", flock |-> "nil", fs |-> l.fs]
    ELSE IF f.lockHeldElsewhere
    THEN [err |-> "fatal: could not lock state file", flock |-> "open", fs |-> l.fs]
    ELSE [err |-> loadStateLocked(l.fs, faults), flock |-> "locked", fs |-> l.fs]

\* the Overlord struct as New fills it; stopped stands for the StateEngine
\* having been stopped
NewOverlord(flock) ==
    [stateFLock |-> flock, loopTomb |-> "alive", ensureTimer |-> NilTimer,
     ensureNext |-> 0, ensureRun |-> 0, pruneTicker |-> FALSE, didPrune |-> FALSE,
     stopped |-> FALSE, loopErr |-> "nil", stLock |-> "free"]

NoOverlord == NewOverlord("nil")

ChangeIds == {1}
\* the work queued in the state: a change whose task may finish and be
\* cleaned up, or a task whose handler on every run calls EnsureBefore(d)
\* and returns Retry
Works == [kind : {"finite", "forever"}, d : Durations]
NoWork == [kind |-> "finite", d |-> 0]

\* outcomes records what each failed cycle's stateEng.Ensure returned
NoSettle == [pc |-> "idle", timeout |-> 0, t0 |-> 0, next |-> 0, errs |-> <<>>,
             result |-> <<>>, converged |-> FALSE, ran |-> FALSE,
             outcomes |-> <<>>]

\* history: an Ensure started while the loop tomb was dying; a ticker-driven
\* prune ran; prunes run by Stop; releases of the lock handle; in the current
\* Settle cycle: EnsureBefore changed the deadline, the task handler ran; how
\* the last Settle cycle ended; an Ensure of the loop returned an error; what
\* the last Stop returned
NoHist == [ensureAfterDying |-> FALSE, tickPruned |-> FALSE, stopPrunes |-> 0,
           lockReleases |-> 0, moved |-> FALSE, handlerRan |-> FALSE,
           lastCycle |-> "none", ensureFailed |-> FALSE, stopErr |-> "none",
           resetSeen |-> FALSE, earliest |-> 0]

OvlIdle ==
    /\ now = 1
    /\ ovlNew = "none"
    /\ o = NoOverlord
    /\ loopPc = "none"
    /\ pruneTickC = FALSE
    /\ stopPc = "idle"
    /\ stopCalls = 0
    /\ settle = NoSettle
    /\ changes = [c \in ChangeIds |-> "doing"]
    /\ work = NoWork
    /\ hist = NoHist
    /\ panicked = FALSE

\* a New that closes the lock handle before it returns an error
FailedNewReleases(flock) == [NoOverlord EXCEPT !.stateFLock = FileLockClose(flock)]

\* what is left of the Overlord when New returns nil and an error: the
\* lock handle loadState stored in it, which nothing closes
FailedNew(flock) == [NoOverlord EXCEPT !.stateFLock = flock]

\* the body of overlord.New
OverlordNew ==
    \E faults \in Faults :
        LET l == loadState(fs, faults) IN
        /\ fs' = l.fs
        /\ ovlNew' = IF l.err = "" THEN "ok" ELSE "err"
        \* on an error New returns nil: the Overlord holding the lock handle
        \* is dropped and the handle is never closed
        /\ o' = IF l.err = "" THEN NewOverlord(l.flock) ELSE FailedNew(l.flock)

\* overlord.New
New ==
    /\ ovlNew = "none"
    /\ OverlordNew
    /\ UNCHANGED <<op, sock>>
    /\ UNCHANGED <<now, loopPc, pruneTickC, stopPc, stopCalls, settle, changes,
                   work, hist, panicked, cmdVars, daemonVars>>

\* overlord.New called again in a process whose earlier New failed: the
\* handle that New left behind still holds the lock unless it was closed
NewAgain ==
    /\ ovlNew = "err"
    /\ \E faults \in Faults :
        LET held == fs.lockHeldElsewhere \/ o.stateFLock = "locked"
            l == loadState([fs EXCEPT !.lockHeldElsewhere = held], faults)
        IN  /\ fs' = [l.fs EXCEPT !.lockHeldElsewhere = fs.lockHeldElsewhere]
            /\ ovlNew' = IF l.err = "" THEN "ok" ELSE "err"
            /\ o' = IF l.err = "" THEN NewOverlord(l.flock)
                    ELSE IF o.stateFLock = "locked" THEN o
                    ELSE FailedNew(l.flock)
            /\ op' = [name |-> "New", branch |-> l.err]
    /\ UNCHANGED sock
    /\ UNCHANGED <<now, loopPc, pruneTickC, stopPc, stopCalls, settle, changes,
                   work, hist, panicked, cmdVars, daemonVars>>

\* the garbage collector finalizes the os.File of a lock handle that New
\* left behind: the descriptor is closed, which releases the lock
LockFinalize ==
    /\ ovlNew = "err"
    /\ o.stateFLock \in {"open", "locked"}
    /\ hist.lockReleases < MaxFinalizes
    /\ o' = [o EXCEPT !.stateFLock = FileLockClose(@)]
    /\ hist' = [hist EXCEPT !.lockReleases = @ + (IF o.stateFLock = "locked"
                                                  THEN 1 ELSE 0)]
    /\ UNCHANGED <<op, sock>>
    /\ UNCHANGED <<now, fs, ovlNew, loopPc, pruneTickC, stopPc, stopCalls, settle,
                   changes, work, panicked, cmdVars, daemonVars>>

\* ================================================== the ensure schedule ====

\* Overlord.ensureTimerSetup
ensureTimerSetup(ov) ==
    [ov EXCEPT !.ensureTimer = NewTimer(ensureInterval),
               !.ensureNext = now + ensureInterval,
               !.pruneTicker = TRUE]

\* a reset that keeps a deadline earlier than the one it would set
ensureTimerResetKeepsEarlier(ov) ==
    IF ov.ensureNext < now + ensureInterval
    THEN ov
    ELSE [ov EXCEPT !.ensureTimer = TimerReset(@, ensureInterval),
                    !.ensureNext = now + ensureInterval]

\* Overlord.ensureTimerReset
ensureTimerReset(ov) ==
    [ov EXCEPT !.ensureTimer = TimerReset(@, ensureInterval),
               !.ensureNext = now + ensureInterval]

\* the branch Overlord.ensureBefore(dur) takes
ensureBeforeBranch(ov, dur) ==
    IF now + dur < ov.ensureNext THEN "earlier"
    ELSE IF ov.ensureNext < now
         THEN IF ~TimerStopResult(ov.ensureTimer) THEN "expired" ELSE "elapsed"
         ELSE "kept"

\* ensureBefore that always takes the later of the two instants
ensureBeforeAlwaysResets(ov, dur) ==
    [ov EXCEPT !.ensureTimer = TimerReset(@, dur), !.ensureNext = now + dur]

\* ensureBefore that records an earlier deadline but leaves the timer alone
ensureBeforeKeepsTimer(ov, dur) ==
    IF ensureBeforeBranch(ov, dur) = "earlier"
    THEN [ov EXCEPT !.ensureNext = now + dur]
    ELSE ov

\* ensureBefore that re-arms a timer that has already fired
ensureBeforeRearmsFired(ov, dur) ==
    CASE ensureBeforeBranch(ov, dur) = "earlier" ->
            [ov EXCEPT !.ensureTimer = TimerReset(@, dur), !.ensureNext = now + dur]
      [] ensureBeforeBranch(ov, dur) \in {"expired", "elapsed"} ->
            [ov EXCEPT !.ensureTimer = TimerReset(TimerStop(@), 0), !.ensureNext = now]
      [] OTHER -> ov

\* ensureBefore that disarms the timer when it records an earlier deadline
ensureBeforeStopsTimer(ov, dur) ==
    IF ensureBeforeBranch(ov, dur) = "earlier"
    THEN [ov EXCEPT !.ensureTimer = TimerStop(@), !.ensureNext = now + dur]
    ELSE ov

\* Overlord.ensureBefore(dur), the timer being non-nil
ensureBefore(ov, dur) ==
    CASE ensureBeforeBranch(ov, dur) = "earlier" ->
            [ov EXCEPT !.ensureTimer = TimerReset(@, dur), !.ensureNext = now + dur]
      [] ensureBeforeBranch(ov, dur) = "expired" ->
            \* o.ensureTimer.Stop() returned false: nothing else is done
            ov
      [] ensureBeforeBranch(ov, dur) = "elapsed" ->
            [ov EXCEPT !.ensureTimer = TimerReset(TimerStop(@), 0), !.ensureNext = now]
      [] OTHER -> ov

\* Overlord.prune
prune(ov) == [ov EXCEPT !.didPrune = TRUE]

\* time passes
Tick ==
    /\ now < MaxTime
    /\ now' = now + 1
    /\ UNCHANGED op
    /\ UNCHANGED <<fs, sock, ovlNew, o, loopPc, pruneTickC, stopPc, stopCalls, settle,
                   changes, work, hist, panicked, cmdVars, daemonVars>>

\* the runtime delivers the ensure timer once it is due (possibly late)
TimerFire ==
    /\ ~o.ensureTimer.nil
    /\ o.ensureTimer.active
    /\ now >= o.ensureTimer.when
    /\ o' = [o EXCEPT !.ensureTimer = TimerDeliver(@)]
    /\ UNCHANGED op
    /\ UNCHANGED <<now, fs, sock, ovlNew, loopPc, pruneTickC, stopPc, stopCalls, settle,
                   changes, work, hist, panicked, cmdVars, daemonVars>>

\* the prune ticker ticks
PruneTickerFire ==
    /\ o.pruneTicker
    /\ ~pruneTickC
    /\ pruneTickC' = TRUE
    /\ UNCHANGED op
    /\ UNCHANGED <<now, fs, sock, ovlNew, o, loopPc, stopPc, stopCalls, settle,
                   changes, work, hist, panicked, cmdVars, daemonVars>>

\* an ensureBefore without the check of the timer
ensureBeforeNeverPanics(ov) == FALSE

\* Overlord.ensureBefore: if o.ensureTimer == nil { panic(...) }
ensureBeforePanics(ov) == ov.ensureTimer.nil

\* an ensureLock that the loop goroutine holds while stateEng.Ensure runs
ensureLockHeldInCycle(pc) == pc # "ensure"

\* o.ensureLock is taken and released inside ensureTimerSetup,
\* ensureTimerReset and ensureBefore only, each one step here: wherever the
\* loop goroutine stands between two steps, the mutex is free
ensureLockFree(pc) == pc \in {"none", "top", "ensure", "select", "exited"}

\* state.EnsureBefore(dur) called by any goroutine: the backend calls
\* Overlord.ensureBefore, which panics when there is no timer
EnsureBefore ==
    /\ ovlNew = "ok"
    /\ ~panicked
    /\ ensureLockFree(loopPc)
    /\ \E dur \in Durations :
        IF ensureBeforePanics(o)
        THEN /\ panicked' = TRUE
             /\ op' = [name |-> "ensureBefore", branch |-> "panic"]
             /\ UNCHANGED <<o, hist>>
        ELSE /\ o' = ensureBefore(o, dur)
             /\ hist' = [hist EXCEPT !.moved = @ \/ (o'.ensureNext # o.ensureNext),
                                     !.earliest = Min(@, now + dur)]
             /\ op' = [name |-> "ensureBefore", branch |-> ensureBeforeBranch(o, dur)]
             /\ UNCHANGED panicked
    /\ UNCHANGED <<now, fs, sock, ovlNew, loopPc, pruneTickC, stopPc, stopCalls, settle,
                   changes, work, cmdVars, daemonVars>>

\* ======================================================= Overlord.Loop ====

\* the body of Overlord.Loop: ensureTimerSetup, then the loop goroutine
\* starts
LoopStart ==
    /\ o' = ensureTimerSetup(o)
    /\ hist' = [hist EXCEPT !.resetSeen = TRUE, !.earliest = now + ensureInterval]
    /\ loopPc' = "top"
    /\ op' = [name |-> "ensureTimerSetup", branch |-> ""]

\* Overlord.Loop
Loop ==
    /\ ovlNew = "ok"
    /\ ~panicked
    /\ loopPc = "none"
    /\ settle.pc \in {"idle", "returned"}
    /\ o.loopTomb # "dead"
    /\ LoopStart
    /\ UNCHANGED <<now, fs, sock, ovlNew, pruneTickC, stopPc, stopCalls, settle,
                   changes, work, panicked, cmdVars, daemonVars>>

\* top of the loop body: ensureTimerReset, then stateEng.Ensure() is entered
LoopCycleBegin ==
    /\ loopPc = "top"
    /\ ~panicked
    /\ o' = ensureTimerReset(o)
    /\ loopPc' = "ensure"
    /\ hist' = [hist EXCEPT !.ensureAfterDying = @ \/ (o.loopTomb = "dying"),
                            !.resetSeen = TRUE, !.earliest = now + ensureInterval]
    /\ op' = [name |-> "ensureTimerReset", branch |-> ""]
    /\ UNCHANGED <<now, fs, sock, ovlNew, pruneTickC, stopPc, stopCalls, settle,
                   changes, work, panicked, cmdVars, daemonVars>>

\* an ensureDidRun that records nothing
ensureDidRunNever(ov) == ov

\* Overlord.ensureDidRun
ensureDidRun(ov) == [ov EXCEPT !.ensureRun = 1]

\* a loop body that gives up when Ensure fails
LoopGivesUpOnError(failed) ==
    IF failed THEN [pc |-> "exited", err |-> "ensure error"]
    ELSE [pc |-> "select", err |-> "nil"]

\* what the loop body does with the error of stateEng.Ensure(): nothing,
\* it goes on to ensureDidRun and the select
LoopAfterEnsure(failed) == [pc |-> "select", err |-> "nil"]

\* stateEng.Ensure() returns, with an error or without; ensureDidRun
LoopCycleEnd ==
    /\ loopPc = "ensure"
    /\ ~panicked
    /\ \E failed \in BOOLEAN :
        LET after == LoopAfterEnsure(failed) IN
        /\ o' = IF after.pc = "exited"
                THEN [o EXCEPT !.loopTomb = "dead", !.loopErr = after.err]
                ELSE ensureDidRun(o)
        /\ loopPc' = after.pc
        /\ hist' = [hist EXCEPT !.ensureFailed = @ \/ failed]
    /\ UNCHANGED op
    /\ UNCHANGED <<now, fs, sock, ovlNew, pruneTickC, stopPc, stopCalls, settle,
                   changes, work, panicked, cmdVars, daemonVars>>

\* select: case <-o.loopTomb.Dying(): return nil
LoopSelectDying ==
    /\ loopPc = "select"
    /\ ~panicked
    /\ o.loopTomb = "dying"
    /\ loopPc' = "exited"
    /\ o' = [o EXCEPT !.loopTomb = "dead"]
    /\ UNCHANGED op
    /\ UNCHANGED <<now, fs, sock, ovlNew, pruneTickC, stopPc, stopCalls, settle,
                   changes, work, hist, panicked, cmdVars, daemonVars>>

\* select: case <-o.ensureTimer.C:
LoopSelectTimer ==
    /\ loopPc = "select"
    /\ ~panicked
    /\ o.ensureTimer.c
    /\ o' = [o EXCEPT !.ensureTimer.c = FALSE]
    /\ loopPc' = "top"
    /\ UNCHANGED op
    /\ UNCHANGED <<now, fs, sock, ovlNew, pruneTickC, stopPc, stopCalls, settle,
                   changes, work, hist, panicked, cmdVars, daemonVars>>

\* select: case <-pruneTickerC(o.pruneTicker): o.prune()
LoopSelectPrune ==
    /\ loopPc = "select"
    /\ ~panicked
    /\ pruneTickC
    /\ pruneTickC' = FALSE
    /\ o' = prune(o)
    /\ hist' = [hist EXCEPT !.tickPruned = TRUE]
    /\ loopPc' = "top"
    /\ UNCHANGED op
    /\ UNCHANGED <<now, fs, sock, ovlNew, stopPc, stopCalls, settle,
                   changes, work, panicked, cmdVars, daemonVars>>

\* ======================================================= Overlord.Stop ====

\* Stop always prunes
StopPrunesAlways(ov) == TRUE

\* whether Stop runs prune
StopPrunes(ov) == ~ov.didPrune

\* Stop leaves the lock file open
StopKeepsLock(ov) == ov

\* Stop closes the lock handle it has
StopReleaseLock(ov) ==
    IF ov.stateFLock # "nil"
    THEN [ov EXCEPT !.stateFLock = FileLockClose(@)]
    ELSE ov

\* Overlord.Stop up to the wait: o.loopTomb.Kill(nil)
StopKill ==
    /\ ovlNew = "ok"
    /\ ~panicked
    /\ stopPc \in {"idle", "returned"}
    /\ stopCalls < MaxStops
    /\ o' = [o EXCEPT !.loopTomb = IF @ = "alive" THEN "dying" ELSE @]
    /\ stopPc' = "waiting"
    /\ stopCalls' = stopCalls + 1
    /\ UNCHANGED op
    /\ UNCHANGED <<now, fs, sock, ovlNew, loopPc, pruneTickC, settle,
                   changes, work, hist, panicked, cmdVars, daemonVars>>

\* a Wait that returns while the loop goroutine is still running
loopTombWaitReturnsAtOnce(ov) == TRUE

\* o.loopTomb.Wait() returns once the loop goroutine has returned
loopTombWait(ov) == ov.loopTomb = "dead"

\* Overlord.Stop after o.loopTomb.Wait() returned: the prune if none ran,
\* stateEng.Stop(), the lock file closed
StopFinish ==
    /\ stopPc = "waiting"
    /\ ~panicked
    /\ loopTombWait(o)
    /\ LET pruned == IF StopPrunes(o) THEN prune(o) ELSE o
           released == StopReleaseLock([pruned EXCEPT !.stopped = TRUE])
       IN /\ o' = released
          /\ hist' = [hist EXCEPT
                        !.stopErr = o.loopErr,
                        !.stopPrunes = @ + (IF StopPrunes(o) THEN 1 ELSE 0),
                        !.lockReleases = @ + (IF o.stateFLock = "locked"
                                                 /\ released.stateFLock # "locked"
                                              THEN 1 ELSE 0)]
    /\ stopPc' = "returned"
    /\ UNCHANGED op
    /\ UNCHANGED <<now, fs, sock, ovlNew, loopPc, pruneTickC, stopCalls, settle,
                   changes, work, panicked, cmdVars, daemonVars>>

\* ------------------------------------------------ prune, step by step ----
\* Overlord.prune taken apart: st.Lock(), st.Prune(...), then st.Unlock()
\* and didPrune = true. stLock names the goroutine that holds the state's
\* lock: "free", "loop" or "stop".

\* select: case <-pruneTickerC(o.pruneTicker): chosen, o.prune() is called
LoopPruneBegin ==
    /\ loopPc = "select"
    /\ ~panicked
    /\ pruneTickC
    /\ pruneTickC' = FALSE
    /\ loopPc' = "prune"
    /\ UNCHANGED op
    /\ UNCHANGED <<now, fs, sock, ovlNew, o, stopPc, stopCalls, settle,
                   changes, work, hist, panicked, cmdVars, daemonVars>>

\* prune in the loop goroutine: st.Lock(), st.Prune(...) is entered
LoopPruneLock ==
    /\ loopPc = "prune"
    /\ o.stLock = "free"
    /\ o' = [o EXCEPT !.stLock = "loop"]
    /\ loopPc' = "pruning"
    /\ UNCHANGED op
    /\ UNCHANGED <<now, fs, sock, ovlNew, pruneTickC, stopPc, stopCalls, settle,
                   changes, work, hist, panicked, cmdVars, daemonVars>>

\* prune in the loop goroutine: st.Prune returns, st.Unlock(), didPrune =
\* true; the select case ends and the next cycle begins
LoopPruneUnlock ==
    /\ loopPc = "pruning"
    /\ o' = prune([o EXCEPT !.stLock = "free"])
    /\ hist' = [hist EXCEPT !.tickPruned = TRUE]
    /\ loopPc' = "top"
    /\ UNCHANGED op
    /\ UNCHANGED <<now, fs, sock, ovlNew, pruneTickC, stopPc, stopCalls, settle,
                   changes, work, panicked, cmdVars, daemonVars>>

\* Overlord.Stop: err = o.loopTomb.Wait() returns; if !o.didPrune
StopWaited ==
    /\ stopPc = "waiting"
    /\ ~panicked
    /\ loopTombWait(o)
    /\ stopPc' = IF StopPrunes(o) THEN "prune" ELSE "engine"
    /\ hist' = [hist EXCEPT !.stopErr = o.loopErr]
    /\ UNCHANGED op
    /\ UNCHANGED <<now, fs, sock, ovlNew, o, loopPc, pruneTickC, stopCalls, settle,
                   changes, work, panicked, cmdVars, daemonVars>>

\* prune in Stop: st.Lock(), st.Prune(...) is entered
StopPruneLock ==
    /\ stopPc = "prune"
    /\ o.stLock = "free"
    /\ o' = [o EXCEPT !.stLock = "stop"]
    /\ stopPc' = "pruning"
    /\ UNCHANGED op
    /\ UNCHANGED <<now, fs, sock, ovlNew, loopPc, pruneTickC, stopCalls, settle,
                   changes, work, hist, panicked, cmdVars, daemonVars>>

\* prune in Stop: st.Prune returns, st.Unlock(), didPrune = true
StopPruneUnlock ==
    /\ stopPc = "pruning"
    /\ o' = prune([o EXCEPT !.stLock = "free"])
    /\ hist' = [hist EXCEPT !.stopPrunes = @ + 1]
    /\ stopPc' = "engine"
    /\ UNCHANGED op
    /\ UNCHANGED <<now, fs, sock, ovlNew, loopPc, pruneTickC, stopCalls, settle,
                   changes, work, panicked, cmdVars, daemonVars>>

\* Overlord.Stop: o.stateEng.Stop(), o.stateFLock.Close(), return err
StopEngine ==
    /\ stopPc = "engine"
    /\ LET released == StopReleaseLock([o EXCEPT !.stopped = TRUE])
       IN /\ o' = released
          /\ hist' = [hist EXCEPT
                        !.lockReleases = @ + (IF o.stateFLock = "locked"
                                                 /\ released.stateFLock # "locked"
                                              THEN 1 ELSE 0)]
    /\ stopPc' = "returned"
    /\ UNCHANGED op
    /\ UNCHANGED <<now, fs, sock, ovlNew, loopPc, pruneTickC, stopCalls, settle,
                   changes, work, panicked, cmdVars, daemonVars>>

\* ===================================================== Overlord.settle ====

\* some change is ready but not clean
CleanupPending == \E c \in ChangeIds : changes[c] = "ready"

\* a loop top that never gives up
SettleNeverTimesOut(st) == FALSE

\* the test at the top of the loop: the timeout has elapsed
SettleTimedOut(st) == st.timeout > 0 /\ now - st.t0 > st.timeout

\* the loop's exit test that looks at the deadline alone
SettleDoneIgnoresCleanups(ov, st) == ov.ensureNext = st.next

\* done, as computed after a cycle: the deadline is the one the cycle's
\* reset returned and no ready change awaits its cleanup
SettleDone(ov, st) == ov.ensureNext = st.next /\ ~CleanupPending

\* a deferred function that stops the timer and leaves it in place
SettleDeferKeepsTimer(ov) == [ov EXCEPT !.ensureTimer = TimerStop(@)]

\* the deferred function: the timer is stopped and removed
SettleDefer(ov) == [ov EXCEPT !.ensureTimer = NilTimer]

\* settle's entry: panics if a timer exists, else o.ensureTimer = NewTimer(0)
\* and t0 = time.Now(); the work queued beforehand is chosen here
SettleBegin(pcs) ==
    /\ ovlNew = "ok"
    /\ ~panicked
    /\ settle.pc \in pcs
    /\ stopPc = "idle"
    /\ IF ~o.ensureTimer.nil
       THEN /\ panicked' = TRUE
            /\ UNCHANGED <<o, settle, work>>
       ELSE /\ \E t \in Timeouts, w \in Works :
                /\ now + t < MaxTime
                /\ settle' = [NoSettle EXCEPT !.pc = "top", !.timeout = t, !.t0 = now]
                /\ work' = w
            /\ o' = [o EXCEPT !.ensureTimer = NewTimer(0)]
            /\ UNCHANGED panicked
    /\ UNCHANGED op
    /\ UNCHANGED <<now, fs, sock, ovlNew, loopPc, pruneTickC, stopPc, stopCalls,
                   changes, hist, cmdVars, daemonVars>>

\* the first Settle on an Overlord
SettleEnter == SettleBegin({"idle"})

\* Settle called at any moment: before, during or after another Settle
SettleAnyTime == SettleBegin({"idle", "top", "cycle", "returned"})

\* top of settle's loop: return "Settle is not converging" after the
\* timeout, else ensureTimerReset and stateEng.Ensure() is entered
SettleTop ==
    /\ settle.pc = "top"
    /\ ~panicked
    /\ IF SettleTimedOut(settle)
       THEN /\ settle' = [settle EXCEPT !.pc = "returned",
                             !.result = Append(settle.errs, "Settle is not converging")]
            /\ o' = SettleDefer(o)
            /\ hist' = [hist EXCEPT !.lastCycle = "timeout"]
            /\ UNCHANGED op
       ELSE /\ o' = ensureTimerReset(o)
            /\ op' = [name |-> "ensureTimerReset", branch |-> ""]
            /\ settle' = [settle EXCEPT !.pc = "cycle", !.next = now + ensureInterval]
            /\ hist' = [hist EXCEPT !.moved = FALSE, !.handlerRan = FALSE,
                                    !.lastCycle = "running", !.resetSeen = TRUE,
                                    !.earliest = now + ensureInterval]
    /\ UNCHANGED <<now, fs, sock, ovlNew, loopPc, pruneTickC, stopPc, stopCalls,
                   changes, work, panicked, cmdVars, daemonVars>>

\* the task handler of the queued "forever" task runs in this cycle: it
\* calls EnsureBefore(work.d) and returns Retry
TaskHandlerRun ==
    /\ settle.pc = "cycle"
    /\ ~panicked
    /\ work.kind = "forever"
    /\ ~hist.handlerRan
    /\ o' = ensureBefore(o, work.d)
    /\ hist' = [hist EXCEPT !.handlerRan = TRUE,
                            !.moved = @ \/ (o'.ensureNext # o.ensureNext),
                            !.earliest = Min(@, now + work.d)]
    /\ op' = [name |-> "ensureBefore", branch |-> ensureBeforeBranch(o, work.d)]
    /\ UNCHANGED <<now, fs, sock, ovlNew, loopPc, pruneTickC, stopPc, stopCalls, settle,
                   changes, work, panicked, cmdVars, daemonVars>>

\* the task runner makes progress in this cycle: the queued change's task
\* finishes (the change is ready), or a ready change's cleanup runs
ChangeProgress ==
    /\ settle.pc = "cycle"
    /\ ~panicked
    /\ work.kind = "finite"
    /\ \E c \in ChangeIds :
        /\ changes[c] \in {"doing", "ready"}
        /\ changes' = [changes EXCEPT ![c] = IF @ = "doing" THEN "ready" ELSE "clean"]
    /\ UNCHANGED op
    /\ UNCHANGED <<now, fs, sock, ovlNew, o, loopPc, pruneTickC, stopPc, stopCalls, settle,
                   work, hist, panicked, cmdVars, daemonVars>>

\* what stateEng.Ensure() returns to settle: nil, a plain error, or an
\* *ensureError holding the error of a manager
EnsureOutcomes == {"nil", "error", "ensureError"}

\* a switch that puts the newest error first
CollectErrsNewestFirst(errs, outcome) ==
    CASE outcome = "nil" -> errs
      [] outcome = "ensureError" -> <<"manager error">> \o errs
      [] OTHER -> <<"ensure error">> \o errs

\* the switch on the type of Ensure's error: nothing for nil, the errors an
\* *ensureError holds, the error itself otherwise
CollectErrs(errs, outcome) ==
    CASE outcome = "nil" -> errs
      [] outcome = "ensureError" -> errs \o <<"manager error">>
      [] OTHER -> Append(errs, "ensure error")

\* stateEng.Ensure() and stateEng.Wait() have returned: collect the error,
\* compute done, leave the loop or go round again; Ensure returns one of
\* returns, at most n cycles fail
SettleCycleEndWith(returns, n) ==
    /\ settle.pc = "cycle"
    /\ ~panicked
    /\ work.kind = "forever" => hist.handlerRan
    /\ \E outcome \in returns :
        /\ outcome # "nil" => Len(settle.errs) < n
        /\ LET errs == CollectErrs(settle.errs, outcome)
               outs == IF outcome = "nil" THEN settle.outcomes
                       ELSE Append(settle.outcomes, outcome) IN
           IF SettleDone(o, settle)
           THEN /\ settle' = [settle EXCEPT !.pc = "returned", !.errs = errs,
                                 !.result = errs, !.converged = TRUE, !.ran = TRUE,
                                 !.outcomes = outs]
                /\ o' = SettleDefer(o)
           ELSE /\ settle' = [settle EXCEPT !.pc = "top", !.errs = errs, !.ran = TRUE,
                                 !.outcomes = outs]
                /\ o' = o
    /\ hist' = [hist EXCEPT !.lastCycle =
                    IF hist.moved THEN "moved"
                    ELSE IF CleanupPending THEN "cleanup" ELSE "quiet"]
    /\ UNCHANGED op
    /\ UNCHANGED <<now, fs, sock, ovlNew, loopPc, pruneTickC, stopPc, stopCalls,
                   changes, work, panicked, cmdVars, daemonVars>>

\* the cycles of Settle, failing with a plain error
SettleCycleEnd == SettleCycleEndWith({"nil", "error"}, MaxErrs)

\* the cycles of Settle, failing with either kind of error, once more
SettleCycleEndMore == SettleCycleEndWith(EnsureOutcomes, MaxErrs + 1)

\* ============================================================== Daemon ====

Conns == 1..MaxConns

\* http.ConnState values reported to the tracker
ConnStates == {"new", "active", "idle", "hijacked", "closed"}

\* a tracker that keeps hijacked connections
TrackConnKeepsHijacked(conns, c, st) ==
    IF st \in {"new", "active"} THEN conns \cup {c}
    ELSE IF st = "hijacked" THEN conns
    ELSE conns \ {c}

\* connTracker.TrackConn
TrackConn(conns, c, st) ==
    IF st \in {"new", "active"} THEN conns \cup {c} ELSE conns \ {c}

\* the request being served on a connection: conn is the value its context
\* holds under connectionKey (0 is no connection), panic whether command.Run
\* panicked on it
NoReq == [inflight |-> FALSE, conn |-> 0, panic |-> FALSE]

\* the Daemon before daemon.New; requested records that HandleRestart ran,
\* lastState the state last reported for each connection
IdleDaemon ==
    [created |-> FALSE, started |-> FALSE, startErr |-> FALSE,
     socketActivated |-> FALSE, restartSocket |-> FALSE, requested |-> FALSE,
     tomb |-> "alive", tombErr |-> "nil", listener |-> "none",
     serve |-> "none", conns |-> {}, lastState |-> [c \in Conns |-> "none"],
     reqs |-> [c \in Conns |-> NoReq],
     closeOnce |-> FALSE, closeErr |-> "nil", closeRet |-> <<>>,
     startPc |-> 0]

\* the locals of Daemon.Stop; drainAgree records what the standby opinions
\* said once the HTTP drain was over, timedOut that serve.Shutdown gave up
\* at shutdownTimeout, forced that serve.Close() was called
NoStop ==
    [pc |-> "idle", restartSocket |-> FALSE, result |-> "none",
     drainAgree |-> FALSE, timedOut |-> FALSE, forced |-> FALSE]

\* connTracker.CanStandby
ConnTrackerCanStandby(dd) == dd.conns = {}

\* Overlord.CanStandby
OverlordCanStandby(ov) == ov.ensureRun # 0

\* a daemon that always agrees to standby
DaemonCanStandbyAlways(dd) == TRUE

\* Daemon.CanStandby
DaemonCanStandby(dd) == dd.socketActivated

\* StandbyOpinions.CanStandby over the opinions added by initStandbyHandling
CanStandby(dd, ov) ==
    /\ ConnTrackerCanStandby(dd)
    /\ OverlordCanStandby(ov)
    /\ DaemonCanStandby(dd)

\* Close of the wrapped net.Listener: an error once it is closed
WrappedClose(state) ==
    IF state = "open" THEN "nil" ELSE "use of closed network connection"

\* a Close that closes the wrapped listener on every call
ucrednetCloseEveryTime(dd) ==
    [dd EXCEPT !.listener = "closed", !.closeOnce = TRUE,
               !.closeErr = WrappedClose(dd.listener),
               !.closeRet = Append(@, WrappedClose(dd.listener))]

\* ucrednetListener.Close: the wrapped listener is closed by the first call
\* only, every call returns what that close returned; closeRet lists what
\* the calls returned
ucrednetClose(dd) ==
    LET err == IF dd.closeOnce THEN dd.closeErr ELSE WrappedClose(dd.listener) IN
    [dd EXCEPT !.listener = "closed", !.closeOnce = TRUE, !.closeErr = err,
               !.closeRet = Append(@, err)]

\* tomb.Kill(reason): the first Kill makes the tomb dying; a non-nil reason
\* replaces a nil one
TombKill(dd, reason) ==
    [dd EXCEPT !.tomb = IF @ = "alive" THEN "dying" ELSE @,
               !.tombErr = IF @ = "nil" THEN reason ELSE @]

\* Daemon.HandleRestart(restart.RestartSocket, ...)
HandleRestart(dd) ==
    TombKill([dd EXCEPT !.restartSocket = TRUE, !.requested = TRUE], "nil")

\* the restart types a restart request can carry
RestartTypes == {"RestartSocket", "RestartDaemon", "RestartSystem", "StopDaemon"}

\* a HandleRestart that takes every restart type
HandleRestartNeverPanics(t) == FALSE

\* Daemon.HandleRestart: if t != restart.RestartSocket { logger.Panicf(...) }
HandleRestartPanics(t) == t # "RestartSocket"

\* Daemon.HandleRestart(t, rebootInfo) called with any restart type
RestartRequest ==
    /\ d.started
    /\ ~panicked
    /\ \E t \in RestartTypes :
        /\ op' = [name |-> "HandleRestart", branch |-> t]
        /\ IF HandleRestartPanics(t)
           THEN panicked' = TRUE /\ d' = d
           ELSE panicked' = FALSE /\ d' = HandleRestart(d)
    /\ UNCHANGED <<now, fs, sock, ovlNew, o, loopPc, pruneTickC, stopPc, stopCalls,
                   settle, changes, work, hist, dStop, standbyPc, cmdVars>>

\* ============================================ GetUnixSocketListener ====

\* the most descriptors a service manager hands down
MaxFiles == 2

\* paths.ManagerSocket, and the socket path of another unit
ManagerSocket == "manager.socket"
OtherSocket == "other.socket"

\* the descriptors activation.Files can return: a listening unix stream
\* socket bound to a path, a unix datagram socket, a listening TCP socket
Descriptors ==
    [kind : {"unixStream"}, addr : {ManagerSocket, OtherSocket}]
        \cup [kind : {"unixDgram"}, addr : {ManagerSocket}]
        \cup [kind : {"tcp"}, addr : {"127.0.0.1:80"}]

InheritedFiles == UNION {[1..n -> Descriptors] : n \in 0..MaxFiles}

\* what is at the socket path: nothing, a socket file nobody listens on,
\* a socket somebody listens on
SocketFiles == {"absent", "stale", "live"}

NoListener == [kind |-> "nil", fd |-> 0]

\* what GetUnixSocketListener returned (listener, activated, err), the calls
\* it made on the way (probed: net.Dial, dialed: the dial succeeded,
\* removed: os.Remove took a file away, bound: net.ListenUnix succeeded),
\* and the socket path before and after
NoRet ==
    [called |-> FALSE, listener |-> NoListener, activated |-> FALSE,
     err |-> "nil", probed |-> FALSE, dialed |-> FALSE, removed |-> FALSE,
     bound |-> FALSE, before |-> "absent", file |-> "absent"]

\* the environment of one process: inherited descriptors, the socket path,
\* and the failures of net.Dial on a live socket, os.Remove, net.ListenUnix
SocketEnvs ==
    [files : InheritedFiles, file : SocketFiles, dialFails : BOOLEAN,
     removeFails : BOOLEAN, listenFails : BOOLEAN, ret : {NoRet}]

\* a process started by hand with nothing at the socket path
FreshSocket ==
    [files |-> <<>>, file |-> "absent", dialFails |-> FALSE,
     removeFails |-> FALSE, listenFails |-> FALSE, ret |-> NoRet]

\* the environments the daemon is started in: by hand, socket activated,
\* by hand while another instance listens
StartSockets ==
    {FreshSocket,
     [FreshSocket EXCEPT !.files = <<[kind |-> "unixStream", addr |-> ManagerSocket]>>,
                         !.file = "live"],
     [FreshSocket EXCEPT !.file = "live"]}

\* net.FileListener fails for a socket that is no stream socket
FileListenerFails(f) == f.kind \notin {"unixStream", "tcp"}

\* listener.(*net.UnixListener)
IsUnixListener(f) == f.kind = "unixStream"

\* a match that does not compare the bound address
InheritedMatchesAnyPath(f, path) == ~FileListenerFails(f) /\ IsUnixListener(f)

\* the three tests of the loop body of GetUnixSocketListener
InheritedMatches(f, path) ==
    /\ ~FileListenerFails(f)
    /\ IsUnixListener(f)
    /\ f.addr = path

\* the loop of GetUnixSocketListener: the first descriptor that matches,
\* 0 when the loop falls through
FirstInherited(files, path) ==
    LET S == {i \in DOMAIN files : InheritedMatches(files[i], path)} IN
    IF S = {} THEN 0 ELSE CHOOSE i \in S : \A j \in S : i <= j

\* a probe that never connects
ProbeDialRefused(env, path) == FALSE

\* net.Dial("unix", path) succeeds
ProbeDial(env, path) == env.file = "live" /\ ~env.dialFails

AlreadyInUse == "socket is already in use"

\* netutil.GetUnixSocketListener
GetUnixSocketListener(env, path) ==
    LET i == FirstInherited(env.files, path)
        base == [NoRet EXCEPT !.called = TRUE, !.before = env.file,
                              !.file = env.file]
        probe == [base EXCEPT !.probed = TRUE]
        gone == env.file # "absent"
    IN  IF i # 0
        THEN [base EXCEPT !.listener = [kind |-> "inherited", fd |-> i],
                          !.activated = TRUE]
        ELSE IF ProbeDial(env, path)
        THEN [probe EXCEPT !.dialed = TRUE, !.err = AlreadyInUse]
        ELSE IF gone /\ env.removeFails
        THEN [probe EXCEPT !.err = "remove"]
        ELSE IF env.listenFails
        THEN [probe EXCEPT !.removed = gone, !.file = "absent",
                           !.err = "listen"]
        ELSE [probe EXCEPT !.removed = gone, !.bound = TRUE, !.file = "live",
                           !.listener = [kind |-> "bound", fd |-> 0]]

\* daemon.New
DaemonNew ==
    /\ ovlNew = "none"
    /\ ~d.created
    /\ OverlordNew
    /\ d' = IF ovlNew' = "ok" THEN [d EXCEPT !.created = TRUE] ELSE d
    /\ UNCHANGED <<now, sock, loopPc, pruneTickC, stopPc, stopCalls, settle, changes,
                   work, hist, panicked, op, dStop, standbyPc, cmdVars>>

\* a Start that launches the serving goroutine before Overlord.Loop
StartOrderServeFirst == <<"listen", "serve", "loop">>

\* the order of the statements of Daemon.Start: the listener, the
\* connection tracker and the server; the standby coordinator and
\* Overlord.Loop; the goroutine that runs serve.Serve
StartOrder == <<"listen", "loop", "serve">>

\* Daemon.Start, statement by statement
DaemonStartStep ==
    /\ d.created
    /\ ~d.started
    /\ ~d.startErr
    /\ dStop.pc = "idle"
    /\ ~panicked
    /\ LET step == StartOrder[d.startPc + 1]
           done == d.startPc + 1 = Len(StartOrder)
           r == GetUnixSocketListener(sock, ManagerSocket)
       IN  CASE step = "listen" ->
                 /\ sock' = [sock EXCEPT !.file = r.file, !.ret = r]
                 /\ d' = IF r.err # "nil"
                         THEN [d EXCEPT !.startErr = TRUE]
                         ELSE [d EXCEPT !.listener = "open",
                                        !.socketActivated = r.activated,
                                        !.conns = {}, !.startPc = @ + 1,
                                        !.started = done]
                 /\ UNCHANGED <<o, loopPc, op, standbyPc, hist>>
             [] step = "loop" ->
                 /\ standbyPc' = "polling"
                 /\ LoopStart
                 /\ d' = [d EXCEPT !.startPc = @ + 1, !.started = done]
                 /\ UNCHANGED sock
             [] step = "serve" ->
                 /\ d' = [d EXCEPT !.serve = "serving", !.startPc = @ + 1,
                                   !.started = done]
                 /\ UNCHANGED <<sock, o, loopPc, op, standbyPc, hist>>
    /\ UNCHANGED <<now, fs, ovlNew, pruneTickC, stopPc, stopCalls, settle,
                   changes, work, panicked, dStop, cmdVars>>

\* Daemon.Start: the listener GetUnixSocketListener returns, or its error, the
\* connection tracker, the standby coordinator, Overlord.Loop, the serving
\* goroutine
DaemonStart ==
    /\ d.created
    /\ ~d.started
    /\ ~d.startErr
    /\ dStop.pc = "idle"
    /\ ~panicked
    /\ LET r == GetUnixSocketListener(sock, ManagerSocket) IN
        /\ sock' = [sock EXCEPT !.file = r.file, !.ret = r]
        /\ IF r.err # "nil"
           THEN /\ d' = [d EXCEPT !.startErr = TRUE]
                /\ UNCHANGED <<o, loopPc, op, standbyPc, hist>>
           ELSE /\ d' = [d EXCEPT !.started = TRUE, !.listener = "open",
                                  !.socketActivated = r.activated,
                                  !.conns = {}, !.serve = "serving",
                                  !.startPc = Len(StartOrder)]
                /\ standbyPc' = "polling"
                /\ LoopStart
    /\ UNCHANGED <<now, fs, ovlNew, pruneTickC, stopPc, stopCalls, settle,
                   changes, work, panicked, dStop, cmdVars>>

\* connTracker.TrackConn(conn, StateNew/StateActive) for an accepted
\* connection
ConnNew ==
    /\ d.serve = "serving"
    /\ d.listener = "open"
    /\ \E c \in Conns \ d.conns :
        LET st == IF d.lastState[c] = "idle" THEN "active" ELSE "new" IN
        d' = [d EXCEPT !.conns = TrackConn(@, c, st), !.lastState[c] = st]
    /\ UNCHANGED <<ovlVars, op, dStop, standbyPc, cmdVars>>

\* connTracker.TrackConn(conn, StateIdle/StateClosed)
ConnDone ==
    /\ \E c \in d.conns, st \in {"idle", "closed"} :
        d' = [d EXCEPT !.conns = TrackConn(@, c, st), !.lastState[c] = st]
    /\ UNCHANGED <<ovlVars, op, dStop, standbyPc, cmdVars>>

\* connTracker.TrackConn called with any connection and any state
TrackConnCall ==
    /\ \E c \in Conns, st \in ConnStates :
        d' = [d EXCEPT !.conns = TrackConn(@, c, st), !.lastState[c] = st]
    /\ UNCHANGED <<ovlVars, op, dStop, standbyPc, cmdVars>>

\* the route of the binding test: a GET handler behind an open read checker
ApiCommand ==
    [GET |-> TRUE, PUT |-> FALSE, POST |-> FALSE,
     ReadAccess |-> "allow", WriteAccess |-> "nil"]

\* the value the server built by Daemon.Start stores under connectionKey in
\* the context of a request read from connection c: its http.Server sets
\* Handler and ConnState only, so the context holds no connection
ServerConnContext(c) == 0

\* the GET request the server hands to the router for connection c
ServedRequest(c) ==
    [Method |-> "GET", hasConn |-> ServerConnContext(c) # 0, credErr |-> FALSE,
     allowHeader |-> "", peerUid |-> 0, contentUid |-> 0]

\* the server reads a request from a tracked connection: StateActive, then
\* logit, the router and commandDispatcher.ServeHTTP call command.Run
RequestArrive ==
    /\ d.serve = "serving"
    /\ \E c \in d.conns :
        /\ ~d.reqs[c].inflight
        /\ runReq' = ServedRequest(c)
        /\ runRes' = Run(runCmd, ServedRequest(c))
        /\ d' = [d EXCEPT !.conns = TrackConn(@, c, "active"),
                          !.lastState[c] = "active",
                          !.reqs[c] = [inflight |-> TRUE,
                                       conn |-> ServerConnContext(c),
                                       panic |-> Run(runCmd, ServedRequest(c)).panic]]
    /\ UNCHANGED <<runCmd, peer, ovlVars, op, dStop, standbyPc>>

\* the request is over: the response is written and the connection goes
\* idle, or the server recovers the handler's panic and closes the connection
RequestDone ==
    /\ \E c \in Conns :
        /\ d.reqs[c].inflight
        /\ LET st == IF d.reqs[c].panic THEN "closed" ELSE "idle" IN
           d' = [d EXCEPT !.conns = TrackConn(@, c, st), !.lastState[c] = st,
                          !.reqs[c] = NoReq]
    /\ UNCHANGED <<ovlVars, op, dStop, standbyPc, cmdVars>>

\* one more Close of the listener after Stop has returned
ListenerClose ==
    /\ dStop.pc = "returned"
    /\ Len(d.closeRet) < MaxCloses
    /\ d' = ucrednetClose(d)
    /\ UNCHANGED <<ovlVars, op, dStop, standbyPc, cmdVars>>

\* the serving goroutine returns: Serve failed while the tomb was alive
\* (its error kills the tomb), or the listener was closed by Stop
ServeExit ==
    /\ d.serve = "serving"
    /\ d.tomb = "alive" \/ d.listener = "closed"
    /\ d' = [d EXCEPT !.serve = "exited", !.tomb = "dead",
                      !.tombErr = IF d.tomb = "alive" THEN "serve" ELSE @]
    /\ UNCHANGED <<ovlVars, op, dStop, standbyPc, cmdVars>>

\* the standby coordinator finds every opinion agreeing
StandbyCheck ==
    /\ standbyPc = "polling"
    /\ CanStandby(d, o)
    /\ standbyPc' = "requesting"
    /\ UNCHANGED <<ovlVars, op, d, dStop, cmdVars>>

\* the coordinator's restart.Request(RestartSocket) reaches HandleRestart
StandbyRequest ==
    /\ standbyPc = "requesting"
    /\ d' = HandleRestart(d)
    /\ standbyPc' = "polling"
    /\ UNCHANGED <<ovlVars, op, dStop, cmdVars>>

\* Daemon.Stop: tomb.Kill(nil) and the copy of restartSocket taken under mu
DaemonStopBegin ==
    /\ d.started
    /\ dStop.pc = "idle"
    /\ d' = TombKill(d, "nil")
    /\ dStop' = [dStop EXCEPT !.pc = "closing", !.restartSocket = d.restartSocket]
    /\ UNCHANGED <<ovlVars, op, standbyPc, cmdVars>>

\* Daemon.Stop: d.listener.Close()
DaemonStopClose ==
    /\ dStop.pc = "closing"
    /\ d' = ucrednetClose(d)
    /\ dStop' = [dStop EXCEPT !.pc = "standby"]
    /\ UNCHANGED <<ovlVars, op, standbyPc, cmdVars>>

\* Daemon.Stop: d.standbyOpinions.Stop() returns once the coordinator's
\* goroutine has left its loop
DaemonStopStandby ==
    /\ dStop.pc = "standby"
    /\ standbyPc = "polling"
    /\ standbyPc' = "stopped"
    /\ dStop' = [dStop EXCEPT !.pc = "shutdown"]
    /\ UNCHANGED <<ovlVars, op, d, cmdVars>>

\* Daemon.Stop: d.tomb.Kill(d.serve.Shutdown(ctx)); Shutdown closes the
\* listener again and returns what that Close returned when no connection
\* is left, DeadlineExceeded otherwise
DaemonStopShutdown ==
    /\ dStop.pc = "shutdown"
    /\ d' = TombKill(ucrednetClose(d),
                     IF d.conns = {}
                     THEN IF ucrednetClose(d).closeErr = "nil" THEN "nil" ELSE "close"
                     ELSE "deadline")
    /\ dStop' = [dStop EXCEPT !.pc = "check", !.timedOut = (d.conns # {})]
    /\ UNCHANGED <<ovlVars, op, standbyPc, cmdVars>>

\* Daemon.Stop: a socket restart seen at the start of Stop is dropped when
\* the opinions no longer agree
DaemonStopCheck ==
    /\ dStop.pc = "check"
    /\ d' = IF dStop.restartSocket /\ ~CanStandby(d, o)
            THEN [d EXCEPT !.restartSocket = FALSE]
            ELSE d
    /\ dStop' = [dStop EXCEPT !.pc = "overlord", !.drainAgree = CanStandby(d, o)]
    /\ UNCHANGED <<ovlVars, op, standbyPc, cmdVars>>

\* Daemon.Stop: d.overlord.Stop() signals the loop
DaemonStopOverlordKill ==
    /\ dStop.pc = "overlord"
    /\ stopPc = "idle"
    /\ StopKill

\* Daemon.Stop: d.overlord.Stop() returns
DaemonStopOverlordFinish ==
    /\ dStop.pc = "overlord"
    /\ StopFinish

\* a Stop that hands the drain timeout to its caller
StopResultHardDeadline(dd) ==
    IF dd.tombErr # "nil" THEN "error"
    ELSE IF dd.restartSocket THEN "ErrRestartSocket"
    ELSE "nil"

\* what Daemon.Stop returns after d.tomb.Wait(): the tomb's error unless it
\* is nil or context.DeadlineExceeded, else ErrRestartSocket or nil
StopResult(dd) ==
    IF dd.tombErr \notin {"nil", "deadline"} THEN "error"
    ELSE IF dd.restartSocket THEN "ErrRestartSocket"
    ELSE "nil"

\* Daemon.Stop: d.tomb.Wait(), serve.Close() after a drain timeout, and the
\* result
DaemonStopWait ==
    /\ dStop.pc = "overlord"
    /\ stopPc = "returned"
    /\ d.tomb = "dead"
    /\ d' = IF d.tombErr = "deadline"
            THEN [d EXCEPT !.conns = {},
                           !.lastState = [c \in Conns |->
                                IF c \in d.conns THEN "closed" ELSE @[c]]]
            ELSE d
    /\ dStop' = [dStop EXCEPT !.pc = "returned",
                     !.forced = (d.tombErr = "deadline"),
                     !.result = StopResult(d)]
    /\ UNCHANGED <<ovlVars, op, standbyPc, cmdVars>>

\* ====================================================== specifications ====

OtherInit ==
    /\ d = IdleDaemon
    /\ dStop = NoStop
    /\ standbyPc = "off"
    /\ op = [name |-> "init", branch |-> ""]

\* the command gateway alone: any route table entry, any requests
CommandInit ==
    /\ runCmd \in Commands
    /\ runReq = NoRequest
    /\ runRes = NoResult
    /\ peer = NoPeer
    /\ OvlIdle
    /\ fs = [lockHeldElsewhere |-> FALSE, dirExists |-> TRUE, stateFile |-> "absent"]
    /\ sock = FreshSocket
    /\ OtherInit

CommandNext == ServeHTTP

SpecCommand == CommandInit /\ [][CommandNext]_vars

\* the Overlord: New, Loop, EnsureBefore, prune, Stop, over the clock
Init ==
    /\ CmdInit
    /\ OvlIdle
    /\ fs \in {f \in FileSystems : f.stateFile = "absent" /\ ~f.lockHeldElsewhere}
    /\ sock = FreshSocket
    /\ OtherInit

Next ==
    \/ New
    \/ Loop
    \/ LoopCycleBegin
    \/ LoopCycleEnd
    \/ LoopSelectDying
    \/ LoopSelectTimer
    \/ LoopSelectPrune
    \/ EnsureBefore
    \/ Tick
    \/ TimerFire
    \/ PruneTickerFire
    \/ StopKill
    \/ StopFinish

Spec == Init /\ [][Next]_vars

\* the loop and Stop with every prune taken step by step
PruneNext ==
    \/ New
    \/ Loop
    \/ LoopCycleBegin
    \/ LoopCycleEnd
    \/ LoopSelectDying
    \/ LoopSelectTimer
    \/ LoopPruneBegin
    \/ LoopPruneLock
    \/ LoopPruneUnlock
    \/ Tick
    \/ TimerFire
    \/ PruneTickerFire
    \/ StopKill
    \/ StopWaited
    \/ StopPruneLock
    \/ StopPruneUnlock
    \/ StopEngine

SpecPrune == Init /\ [][PruneNext]_vars

\* overlord.New called until it succeeds, on any state directory
NewAgainInit ==
    /\ CmdInit
    /\ OvlIdle
    /\ fs \in FileSystems
    /\ sock = FreshSocket
    /\ OtherInit

NewAgainNext ==
    \/ New
    \/ NewAgain
    \/ LockFinalize
    \/ Tick

SpecNewAgain == NewAgainInit /\ [][NewAgainNext]_vars

\* the loop left running, with EnsureBefore called at any moment
LoopNext ==
    \/ New
    \/ Loop
    \/ LoopCycleBegin
    \/ LoopCycleEnd
    \/ LoopSelectTimer
    \/ LoopSelectPrune
    \/ EnsureBefore
    \/ Tick
    \/ TimerFire
    \/ PruneTickerFire

\* time passes, the runtime delivers due timers, the loop goroutine is
\* scheduled and stateEng.Ensure returns
SpecLoopFair ==
    /\ Init
    /\ [][LoopNext]_vars
    /\ WF_vars(Tick)
    /\ WF_vars(TimerFire)
    /\ WF_vars(LoopCycleBegin)
    /\ WF_vars(LoopCycleEnd)
    /\ WF_vars(LoopSelectTimer)

\* Settle on an Overlord built by New
SettleInit ==
    /\ CmdInit
    /\ OvlIdle
    /\ fs = [lockHeldElsewhere |-> FALSE, dirExists |-> TRUE, stateFile |-> "absent"]
    /\ sock = FreshSocket
    /\ OtherInit

SettleNext ==
    \/ New
    \/ SettleEnter
    \/ SettleTop
    \/ TaskHandlerRun
    \/ ChangeProgress
    \/ SettleCycleEnd
    \/ EnsureBefore
    \/ Tick
    \/ TimerFire

SpecSettle == SettleInit /\ [][SettleNext]_vars

\* an Overlord used with Settle first and Loop afterwards
StandbyNext ==
    \/ New
    \/ Loop
    \/ LoopCycleBegin
    \/ LoopCycleEnd
    \/ LoopSelectDying
    \/ LoopSelectTimer
    \/ Tick
    \/ TimerFire
    \/ StopKill
    \/ StopFinish
    \/ SettleEnter
    \/ SettleTop
    \/ TaskHandlerRun
    \/ ChangeProgress
    \/ SettleCycleEnd

SpecStandby == SettleInit /\ [][StandbyNext]_vars

\* Settle called at any moment on an Overlord whose Loop may be started
ExclusiveNext ==
    \/ New
    \/ Loop
    \/ LoopCycleBegin
    \/ LoopCycleEnd
    \/ SettleAnyTime
    \/ SettleTop
    \/ TaskHandlerRun
    \/ ChangeProgress
    \/ SettleCycleEnd
    \/ Tick

SpecExclusive == SettleInit /\ [][ExclusiveNext]_vars

\* Settle with failing ensure cycles
SettleErrsNext ==
    \/ New
    \/ SettleEnter
    \/ SettleTop
    \/ TaskHandlerRun
    \/ ChangeProgress
    \/ SettleCycleEndMore
    \/ Tick

SpecSettleErrs == SettleInit /\ [][SettleErrsNext]_vars

\* time passes, Settle's goroutine and the task runner's handlers get to run
SpecSettleFair ==
    /\ SpecSettle
    /\ WF_vars(Tick)
    /\ WF_vars(SettleTop)
    /\ WF_vars(SettleCycleEnd)
    /\ WF_vars(TaskHandlerRun)

\* the credential listener's address strings and their parser
IdentityInit ==
    /\ CmdInit
    /\ OvlIdle
    /\ fs = [lockHeldElsewhere |-> FALSE, dirExists |-> TRUE, stateFile |-> "absent"]
    /\ sock = FreshSocket
    /\ OtherInit

IdentityNext ==
    \/ Accept
    \/ RemoteAddrString
    \/ TaintedAddr
    \/ UcrednetGet

SpecIdentity == IdentityInit /\ [][IdentityNext]_vars

\* a connection tracker on its own
ConnTrackerNext == TrackConnCall

SpecConnTracker == IdentityInit /\ [][ConnTrackerNext]_vars

\* the started daemon serving requests of its route table
ServeInit ==
    /\ runCmd = ApiCommand
    /\ runReq = NoRequest
    /\ runRes = NoResult
    /\ peer = NoPeer
    /\ OvlIdle
    /\ fs \in {f \in FileSystems : f.stateFile \in {"absent", "valid"}}
    /\ sock \in StartSockets
    /\ OtherInit

ServeNext ==
    \/ DaemonNew
    \/ DaemonStart
    \/ LoopCycleBegin
    \/ LoopCycleEnd
    \/ ConnNew
    \/ RequestArrive
    \/ RequestDone

SpecServe == ServeInit /\ [][ServeNext]_vars

\* Daemon.Start statement by statement, connections and requests arriving
\* as soon as the server accepts them, EnsureBefore called at any moment
StartNext ==
    \/ DaemonNew
    \/ DaemonStartStep
    \/ LoopCycleBegin
    \/ LoopCycleEnd
    \/ ConnNew
    \/ RequestArrive
    \/ RequestDone
    \/ EnsureBefore

SpecStart == ServeInit /\ [][StartNext]_vars

\* the daemon as main runs it, on any state directory
DaemonInit ==
    /\ CmdInit
    /\ OvlIdle
    /\ fs \in FileSystems
    /\ sock \in StartSockets
    /\ OtherInit

DaemonNext ==
    \/ DaemonNew
    \/ DaemonStart
    \/ LoopCycleBegin
    \/ LoopCycleEnd
    \/ LoopSelectDying
    \/ ConnNew
    \/ ConnDone
    \/ ServeExit
    \/ StandbyCheck
    \/ StandbyRequest
    \/ DaemonStopBegin
    \/ DaemonStopClose
    \/ DaemonStopStandby
    \/ DaemonStopShutdown
    \/ DaemonStopCheck
    \/ DaemonStopOverlordKill
    \/ DaemonStopOverlordFinish
    \/ DaemonStopWait

SpecDaemon == DaemonInit /\ [][DaemonNext]_vars

\* Daemon.Start in every environment of inherited descriptors and socket
\* path
SocketInit ==
    /\ CmdInit
    /\ OvlIdle
    /\ fs = [lockHeldElsewhere |-> FALSE, dirExists |-> TRUE, stateFile |-> "valid"]
    /\ sock \in SocketEnvs
    /\ OtherInit

SocketNext ==
    \/ DaemonNew
    \/ DaemonStart
    \/ LoopCycleBegin
    \/ LoopCycleEnd

SpecSocket == SocketInit /\ [][SocketNext]_vars

\* a started daemon receiving restart requests of every type
RestartNext ==
    \/ DaemonNew
    \/ DaemonStart
    \/ LoopCycleBegin
    \/ LoopCycleEnd
    \/ ConnNew
    \/ ConnDone
    \/ RestartRequest

SpecRestart == DaemonInit /\ [][RestartNext]_vars

\* the daemon and further Close calls on its listener
SpecListener == DaemonInit /\ [][DaemonNext \/ ListenerClose]_vars

\* Stop's own steps, the coordinator's goroutine, the ensure loop and the
\* serving goroutine (once its listener is closed) get to run; the
\* coordinator sits in its select between two checks, where a Stop that
\* keeps trying reaches it
SpecDaemonFair ==
    /\ SpecDaemon
    /\ WF_vars(DaemonStopClose)
    /\ SF_vars(DaemonStopStandby)
    /\ WF_vars(DaemonStopShutdown)
    /\ WF_vars(DaemonStopCheck)
    /\ WF_vars(DaemonStopOverlordKill)
    /\ WF_vars(DaemonStopOverlordFinish)
    /\ WF_vars(DaemonStopWait)
    /\ WF_vars(StandbyCheck)
    /\ WF_vars(StandbyRequest)
    /\ WF_vars(LoopCycleBegin)
    /\ WF_vars(LoopCycleEnd)
    /\ WF_vars(LoopSelectDying)
    /\ WF_vars(ServeExit /\ d.listener = "closed")


\* ============================================================== claims ====

\* positions of calls in the log of the request served last
HandlerCalls == {i \in DOMAIN runRes.log : runRes.log[i].call = "handler"}
AccessCalls == {i \in DOMAIN runRes.log : runRes.log[i].call = "CheckAccess"}
Served == runReq # NoRequest
Selected == SelectHandler(runCmd, runReq)

\* C1: for a request whose verb has both a handler and an access checker,
\* the handler is invoked at most once and only after that request's
\* CheckAccess returned nil; on a denial the handler is never invoked and
\* Run returns exactly the denial.
C1_HandlerOnlyAfterAccess ==
    (Served /\ Selected.rspf /\ Selected.access # "nil") =>
        /\ Cardinality(HandlerCalls) <= 1
        /\ \A i \in HandlerCalls :
              \E j \in AccessCalls : j < i /\ runRes.log[j].returned = NilError
        /\ \A j \in AccessCalls :
              runRes.log[j].returned # NilError =>
                  HandlerCalls = {} /\ runRes.rsp = runRes.log[j].returned

\* a request was approved and its handler ran after the access check
C1_Witness ==
    /\ Served /\ Selected.rspf /\ Selected.access = "allow"
    /\ runRes.rsp.kind = "handler"
    /\ Len(runRes.log) = 2

\* C2 as stated: no handler for the verb gives 405, a handler without an
\* access checker gives 500, and in both cases nothing is invoked.
C2_FailsClosedAlways ==
    /\ (Served /\ ~Selected.rspf) =>
          /\ ~runRes.panic
          /\ runRes.rsp.kind = "error"
          /\ runRes.rsp.status = statusMethodNotAllowedCode
          /\ runRes.log = <<>>
    /\ (Served /\ Selected.rspf /\ Selected.access = "nil") =>
          /\ ~runRes.panic
          /\ runRes.rsp.kind = "error"
          /\ runRes.rsp.status = statusInternalErrorCode
          /\ runRes.log = <<>>

\* C2 amended: the same, for a request bound to a connection whose peer
\* credentials resolve (without a connection Run panics, and a credential
\* error gives 500 before the verb is looked at).
C2_FailsClosed ==
    (Served /\ runReq.hasConn /\ ~runReq.credErr) =>
        /\ ~Selected.rspf =>
              /\ ~runRes.panic
              /\ runRes.rsp.kind = "error"
              /\ runRes.rsp.status = statusMethodNotAllowedCode
              /\ runRes.log = <<>>
        /\ (Selected.rspf /\ Selected.access = "nil") =>
              /\ ~runRes.panic
              /\ runRes.rsp.kind = "error"
              /\ runRes.rsp.status = statusInternalErrorCode
              /\ runRes.log = <<>>

\* a handler without an access checker was refused with 500
C2_Witness ==
    /\ Served /\ runReq.hasConn /\ ~runReq.credErr
    /\ Selected.rspf /\ Selected.access = "nil"
    /\ runRes.rsp.kind = "error"
    /\ runRes.rsp.status = statusInternalErrorCode

ScheduleResets == {"ensureTimerReset", "ensureTimerSetup"}

\* C3 as stated: a call of ensureBefore never moves the recorded deadline
\* later, and only the reset at the top of an ensure cycle (to now +
\* ensureInterval) does.
C3_EnsureBeforeNeverLater ==
    [][ /\ op'.name = "ensureBefore" => o'.ensureNext <= o.ensureNext
        /\ o'.ensureNext > o.ensureNext =>
              /\ op'.name \in ScheduleResets
              /\ o'.ensureNext = now + ensureInterval ]_vars

\* C3 amended: ensureBefore never moves a deadline that has not elapsed
\* later; when the deadline has already elapsed and the timer is still armed
\* it sets the deadline to now (later than it was, never later than the
\* present); apart from that only the reset moves the deadline later.
C3_EnsureBeforeNotLaterUnlessElapsed ==
    [][ /\ op'.name = "ensureBefore" =>
              \/ o'.ensureNext <= o.ensureNext
              \/ o.ensureNext < now /\ o'.ensureNext = now
        /\ o'.ensureNext > o.ensureNext =>
              \/ /\ op'.name \in ScheduleResets
                 /\ o'.ensureNext = now + ensureInterval
              \/ /\ op' = [name |-> "ensureBefore", branch |-> "elapsed"]
                 /\ o.ensureNext < now
                 /\ o'.ensureNext = now ]_vars

\* ensureBefore found the deadline elapsed and the timer armed, and has
\* just set the deadline to now and the timer to fire at once
C3_Witness ==
    /\ op = [name |-> "ensureBefore", branch |-> "elapsed"]
    /\ o.ensureNext = now
    /\ o.ensureTimer.active
    /\ o.ensureTimer.when = now

\* C8: the lock taken by New stays held until Stop and is released exactly
\* once, also when Stop is called again.
C8_LockReleasedOnce ==
    /\ hist.lockReleases <= 1
    /\ (ovlNew = "ok" /\ hist.lockReleases = 0) => o.stateFLock = "locked"
    /\ hist.lockReleases > 0 => (stopCalls > 0 /\ o.stateFLock = "closed")
    /\ stopPc = "returned" => hist.lockReleases = 1

\* Stop has returned twice
C8_Witness ==
    /\ stopCalls = 2
    /\ stopPc = "returned"
    /\ o.stateFLock = "closed"

\* C9: when Stop returns Prune has run; Stop runs it exactly once if no
\* ticker-driven Prune ran before and not at all otherwise.
C9_PruneRanByStop ==
    stopPc = "returned" =>
        /\ o.didPrune
        /\ hist.stopPrunes = IF hist.tickPruned THEN 0 ELSE 1

\* Stop returned after a ticker-driven prune, without pruning itself
C9_Witness ==
    /\ stopPc = "returned"
    /\ hist.tickPruned
    /\ hist.stopPrunes = 0

\* C10: once the loop tomb is dying the loop goroutine enters no further
\* stateEng.Ensure().
C10_NoEnsureAfterStopSignal ==
    [][ o.loopTomb # "alive" => ~(loopPc # "ensure" /\ loopPc' = "ensure") ]_vars

NotConverging == "Settle is not converging"

SettleReturned == settle.pc = "returned"

SettleRunning == settle.pc \in {"top", "cycle"}

\* the error Settle returned ends with the convergence failure
ReturnedNotConverging ==
    /\ Len(settle.result) > 0
    /\ settle.result[Len(settle.result)] = NotConverging

\* C4 as stated: Settle with a timeout always returns, and with a handler
\* that on every run calls EnsureBefore and returns Retry what it returns is
\* the error "Settle is not converging".
C4_ForeverHandlerNotConverging ==
    /\ (SettleRunning /\ settle.timeout > 0) ~> SettleReturned
    /\ [](SettleReturned /\ work.kind = "forever" => ReturnedNotConverging)

\* C4 amended: Settle with a timeout always returns; it returns the error
\* "Settle is not converging", after the timeout has elapsed, exactly when
\* it did not leave the loop as converged, and so whenever the last cycle
\* left the deadline moved or a cleanup pending; a handler whose
\* EnsureBefore leaves the deadline where the cycle's reset put it does not
\* keep Settle going.
C4_SettleReturns ==
    /\ (SettleRunning /\ settle.timeout > 0) ~> SettleReturned
    /\ [](SettleReturned =>
            /\ settle.converged <=> ~ReturnedNotConverging
            /\ (o.ensureNext # settle.next \/ CleanupPending) => ReturnedNotConverging
            /\ ReturnedNotConverging =>
                 /\ settle.timeout > 0
                 /\ now - settle.t0 > settle.timeout
                 /\ settle.result = Append(settle.errs, NotConverging))

\* Settle gave up on a handler that kept moving the deadline
C4_Witness ==
    /\ SettleReturned
    /\ work.kind = "forever"
    /\ settle.ran
    /\ o.ensureNext # settle.next
    /\ ReturnedNotConverging

\* C5 as stated: Settle leaves its loop as converged only after a cycle in
\* which the deadline is still the value set at the cycle's start and with
\* no ready change awaiting cleanup; every cycle in which the deadline was
\* moved, or after which a cleanup is pending, is followed by another ensure
\* cycle.
C5_AnotherCycleFollows ==
    /\ [](SettleReturned /\ settle.converged =>
            settle.ran /\ o.ensureNext = settle.next /\ ~CleanupPending)
    /\ [][ (/\ settle.pc = "top"
            /\ hist.lastCycle \in {"moved", "cleanup"}
            /\ settle' # settle) => settle'.pc = "cycle" ]_vars

\* C5 amended: Settle leaves its loop as converged only after a cycle at
\* whose end the deadline equals the value the cycle's reset returned and no
\* ready change awaits cleanup; a cycle at whose end the deadline differs or
\* a cleanup is pending is followed by another pass through the loop, which
\* runs another ensure cycle unless the timeout has elapsed, in which case
\* Settle returns the convergence failure.
C5_ConvergedOnlyWhenQuiet ==
    /\ [](SettleReturned /\ settle.converged =>
            settle.ran /\ o.ensureNext = settle.next /\ ~CleanupPending)
    /\ [][ (settle.pc = "cycle" /\ settle'.pc # "cycle") =>
              IF o.ensureNext # settle.next \/ CleanupPending
              THEN settle'.pc = "top"
              ELSE settle'.pc = "returned" /\ settle'.converged ]_vars
    /\ [][ (settle.pc = "top" /\ settle' # settle) =>
              IF SettleTimedOut(settle)
              THEN settle'.pc = "returned" /\ ~settle'.converged
              ELSE settle'.pc = "cycle" ]_vars

\* a cycle ended with a ready change awaiting cleanup and Settle is about
\* to run another cycle
C5_Witness ==
    /\ settle.pc = "top"
    /\ settle.ran
    /\ hist.lastCycle = "cleanup"
    /\ CleanupPending
    /\ ~SettleTimedOut(settle)

\* C6: Stop returns ErrRestartSocket only if a socket restart was requested
\* and every standby opinion still agreed after the HTTP drain; a requested
\* restart is dropped when an opinion disagrees after the drain.
C6_RestartSocketOnlyIfOpinionsAgree ==
    dStop.pc = "returned" =>
        /\ dStop.result = "ErrRestartSocket" => (d.requested /\ dStop.drainAgree)
        /\ (d.requested /\ ~dStop.drainAgree) => dStop.result # "ErrRestartSocket"

StartupFatal == fs.lockHeldElsewhere \/ fs.stateFile = "corrupt"

\* C7: with the state lock held elsewhere or an undecodable state file
\* overlord.New returns an error and no Overlord, daemon.New no Daemon, and
\* neither the ensure loop nor HTTP serving ever starts.
C7_FatalStartupErrorsAbort ==
    (StartupFatal \/ ovlNew = "err") =>
        /\ ovlNew # "ok"
        /\ ~d.created
        /\ ~d.started
        /\ loopPc = "none"
        /\ o.ensureTimer.nil
        /\ d.listener = "none"
        /\ d.serve = "none"
        /\ standbyPc = "off"

\* daemon.New has failed on a locked or undecodable state
C7_Witness ==
    /\ StartupFatal
    /\ ovlNew = "err"
    /\ ~d.created

\* C11: an error returned by Ensure in a loop cycle does not end the loop:
\* the cycle ends in the select, the loop goroutine leaves only once its
\* tomb is dying, further cycles follow a failed one, and Stop returns nil.
C11_EnsureErrorKeepsLoop ==
    /\ [][ (loopPc = "ensure" /\ loopPc' # "ensure") => loopPc' = "select" ]_vars
    /\ [][ (loopPc # "exited" /\ loopPc' = "exited") => o.loopTomb = "dying" ]_vars
    /\ [](loopPc = "exited" => stopCalls > 0)
    /\ [](stopPc = "returned" => hist.stopErr = "nil")

\* an Ensure has failed and the loop, not stopped, is in a further cycle
C11_Witness ==
    /\ hist.ensureFailed
    /\ loopPc = "ensure"
    /\ o.loopTomb = "alive"
    /\ stopCalls = 0

Got == peer.got # NotCalled

\* C12: for every malformed address string (empty, no grammar match, empty
\* uid, uid of 2^32 or more, a second block of fields after a complete one)
\* ucrednetGet returns a nil identity and errNoID, and it never returns an
\* identity together with an error.
C12_MalformedGivesErrNoID ==
    Got =>
        /\ peer.kind \in MalformedKinds => peer.got = errNoID
        /\ peer.got.err # "nil" => peer.got = errNoID
        /\ peer.got.err = "nil" => ~peer.got.id.nil

\* ucrednetGet has rejected a uid of 2^32 in an otherwise complete string
C12_Witness ==
    /\ Got
    /\ peer.kind = "biguid"
    /\ peer.addr = PidEq \o <<"1", "0", "0">> \o UidEq \o TooBig \o SocketEq \o Semi
    /\ peer.got = errNoID

HasSemi(s) == \E i \in 1..Len(s) : s[i] = ";"

\* C13 as stated: parsing the address string produced for any valid
\* identity yields the same pid, uid and socket.
C13_RoundTripAnySocket ==
    (Got /\ peer.kind = "formatted" /\ ~peer.id.nil) =>
        /\ peer.got.err = "nil"
        /\ peer.got.id = peer.id

\* C13 amended: the round trip holds for every valid identity whose socket
\* address holds no semicolon; with a semicolon in the socket address the
\* string is rejected with errNoID; the string of a connection without
\* credentials is rejected too.
C13_RoundTrip ==
    (Got /\ peer.kind = "formatted") =>
        IF ~peer.id.nil /\ ~HasSemi(peer.id.Socket)
        THEN peer.got.err = "nil" /\ peer.got.id = peer.id
        ELSE peer.got = errNoID

\* the largest uid and pid came back from the string made for them
C13_Witness ==
    /\ Got
    /\ peer.kind = "formatted"
    /\ peer.id = Identity(MaxInt32, [hi |-> 42949, lo |-> 67294], RunSocket)
    /\ peer.got.id = peer.id

Tracked == {c \in Conns : d.lastState[c] \in {"new", "active"}}

\* C14: after any sequence of TrackConn calls the tracked set is the set of
\* connections last reported new or active, and connTracker.CanStandby is
\* true exactly when that set is empty.
C14_TrackedAreNewOrActive ==
    /\ d.conns = Tracked
    /\ ConnTrackerCanStandby(d) <=> (Tracked = {})

\* one connection was hijacked and dropped while another is still active
C14_Witness ==
    /\ d.lastState[1] = "hijacked"
    /\ d.lastState[2] = "active"
    /\ d.conns = {2}
    /\ ~ConnTrackerCanStandby(d)

\* the requests being served
InFlight == {c \in Conns : d.reqs[c].inflight}

\* C15: every request served by a started daemon carries the connection it
\* arrived on under connectionKey, so command.Run does not panic on it, and
\* two requests in flight on separate connections see two distinct non-nil
\* connections
C15_RequestsCarryTheirConnection ==
    /\ ~runRes.panic
    /\ \A c \in InFlight : d.reqs[c].conn = c
    /\ \A c1, c2 \in InFlight :
        c1 # c2 => /\ d.reqs[c1].conn # 0
                   /\ d.reqs[c2].conn # 0
                   /\ d.reqs[c1].conn # d.reqs[c2].conn

StopRunning == dStop.pc \notin {"idle", "returned"}
StopReturned == dStop.pc = "returned"
NoError == {"nil", "ErrRestartSocket"}

\* C16: Daemon.Stop always terminates, and when the graceful shutdown has
\* not finished at shutdownTimeout it force-closes the remaining connections
\* and returns nil or ErrRestartSocket
C16_DrainTimeoutNeverAnError ==
    StopReturned /\ dStop.timedOut =>
        /\ dStop.result \in NoError
        /\ dStop.forced
        /\ d.conns = {}

\* C16 amended: Daemon.Stop always terminates; a drain timeout alone is
\* soft (connections force-closed, nil or ErrRestartSocket returned), but
\* when the serving goroutine had already failed with its own error Stop
\* returns that error and closes nothing by force
C16_StopTerminatesDrainSoft ==
    /\ [](StopReturned /\ dStop.timedOut =>
            IF d.tombErr = "serve"
            THEN dStop.result = "error" /\ ~dStop.forced
            ELSE /\ dStop.result \in NoError
                 /\ dStop.forced
                 /\ d.conns = {})
    /\ (StopRunning ~> StopReturned)

C16_Witness ==
    /\ StopReturned
    /\ dStop.timedOut
    /\ dStop.forced
    /\ d.tombErr = "deadline"
    /\ dStop.result = "nil"
    /\ d.conns = {}

\* the checker slot of the command that goes with a verb
SlotOf(verb) == IF verb = "GET" THEN "read" ELSE "write"
CheckerOf(c, verb) == IF verb = "GET" THEN c.ReadAccess ELSE c.WriteAccess
Approved == AccessCalls # {} /\ \A i \in AccessCalls : runRes.log[i].returned = NilError

\* C17: GET is checked with ReadAccess, PUT and POST with WriteAccess; the
\* checker receives the credential of the connection bound to the context
\* (not a uid named by the request's content) and the parsed
\* allow-interaction flag; on approval Run returns the handler's response
C17_AccessClassByVerb ==
    /\ \A i \in AccessCalls :
        /\ runReq.Method \in {"GET", "PUT", "POST"}
        /\ runRes.log[i].class = SlotOf(runReq.Method)
        /\ runRes.log[i].returned =
               (IF CheckerOf(runCmd, runReq.Method) = "deny"
                THEN [kind |-> "denied", status |-> statusUnauthorizedCode,
                      class |-> SlotOf(runReq.Method)]
                ELSE NilError)
        /\ runRes.log[i].ucred = runReq.peerUid
        /\ runRes.log[i].allowInteraction =
               (runReq.allowHeader \in {"1", "true"})
    /\ Approved =>
        /\ HandlerCalls # {}
        /\ \A j \in HandlerCalls :
            /\ runRes.log[j].verb = runReq.Method
            /\ runRes.rsp = runRes.log[j].returned

C17_Witness ==
    /\ runReq.Method = "PUT"
    /\ runReq.peerUid # runReq.contentUid
    /\ runReq.allowHeader = "true"
    /\ runCmd.ReadAccess = "deny"
    /\ Approved
    /\ runRes.rsp.kind = "handler"

\* the deadline is still ahead and a timer exists
DeadlineAhead == hist.resetSeen /\ ~o.ensureTimer.nil /\ now < o.ensureNext

\* C18: after any EnsureBefore calls since the last deadline reset, while
\* the deadline has not elapsed, the recorded deadline is the minimum of the
\* reset's deadline and every requested instant, and the ensure timer is
\* armed for that instant
C18_DeadlineIsEarliestRequest ==
    DeadlineAhead =>
        /\ o.ensureNext = hist.earliest
        /\ o.ensureTimer.active
        /\ o.ensureTimer.when = o.ensureNext

C18_Witness ==
    /\ DeadlineAhead
    /\ op.name = "ensureBefore"
    /\ op.branch = "kept"
    /\ hist.moved
    /\ o.ensureNext < now + ensureInterval
    /\ o.ensureNext = hist.earliest

\* the loop goroutine leaves stateEng.Ensure() and goes on to its select
LoopCycleCompletes == loopPc = "ensure" /\ loopPc' = "select"
\* Settle's goroutine takes a step
SettleSteps == settle' # settle

\* C19: Overlord.CanStandby is false from construction until the loop has
\* completed its first ensure cycle and true ever after; the ensure cycles
\* Settle runs do not change it
C19_CanStandbyAfterFirstLoopCycle ==
    [][/\ (ovlNew = "none" => ~OverlordCanStandby(o') \/ ovlNew' # "none")
       /\ (ovlNew = "none" /\ ovlNew' # "none" => ~OverlordCanStandby(o'))
       /\ (OverlordCanStandby(o) => OverlordCanStandby(o'))
       /\ (~OverlordCanStandby(o) /\ OverlordCanStandby(o') => LoopCycleCompletes)
       /\ (LoopCycleCompletes => OverlordCanStandby(o'))
       /\ (SettleSteps => OverlordCanStandby(o') = OverlordCanStandby(o))]_vars

C19_Witness ==
    /\ OverlordCanStandby(o)
    /\ settle.pc = "returned"
    /\ settle.ran
    /\ loopPc = "select"

\* a running socket-activated daemon in which every standby opinion agrees
Standable == d.started /\ d.tomb = "alive" /\ d.socketActivated /\ CanStandby(d, o)
\* Stop has returned for a daemon that went dying by its own restart request
StoppedAfterOwnRestart == StopReturned /\ dStop.restartSocket /\ d.tombErr # "serve"
\* Stop has returned for a daemon that was not socket activated
StoppedNotActivated == StopReturned /\ ~d.socketActivated

\* C20: a socket-activated daemon without tracked connections that has
\* completed an ensure cycle goes dying on its own and the Stop that follows
\* returns ErrRestartSocket; a daemon not started in activated mode reports
\* CanStandby false and its Stop returns nil
C20_StandbyAlwaysRestartsSocket ==
    /\ StopReturned /\ dStop.restartSocket => dStop.result = "ErrRestartSocket"
    /\ d.started /\ ~d.socketActivated => ~DaemonCanStandby(d)
    /\ StoppedNotActivated => dStop.result = "nil"

\* C20 amended: such a daemon, as long as it stays without connections,
\* goes dying on its own; the Stop that follows returns ErrRestartSocket
\* when the standby opinions still agree once the HTTP drain is over and nil
\* when they do not; a daemon not started in activated mode reports
\* CanStandby false and its Stop returns nil; in both cases Stop returns the
\* serving goroutine's error if that goroutine had failed
C20_StandbyRestartsSocketIfStillIdle ==
    /\ []<>(~Standable)
    /\ [](StoppedAfterOwnRestart =>
            dStop.result = IF dStop.drainAgree THEN "ErrRestartSocket" ELSE "nil")
    /\ [](d.started /\ ~d.socketActivated => ~DaemonCanStandby(d))
    /\ [](StoppedNotActivated =>
            dStop.result = IF d.tombErr = "serve" THEN "error" ELSE "nil")
    /\ [](StopReturned /\ d.tombErr = "serve" => dStop.result = "error")

C20_Witness ==
    /\ StoppedAfterOwnRestart
    /\ d.socketActivated
    /\ dStop.drainAgree
    /\ dStop.result = "ErrRestartSocket"

\* C21: ensureBefore called while no ensure timer exists (Loop was never
\* started, no Settle is in progress) panics and leaves the deadline as it
\* was
C21_EnsureBeforeWithoutTimerPanics ==
    /\ [][EnsureBefore /\ o.ensureTimer.nil =>
            /\ panicked'
            /\ o'.ensureNext = o.ensureNext
            /\ o'.ensureTimer.nil]_vars
    /\ [](ovlNew = "ok" /\ settle.pc = "idle" =>
            (o.ensureTimer.nil <=> loopPc = "none"))

C21_Witness ==
    /\ panicked
    /\ op = [name |-> "ensureBefore", branch |-> "panic"]
    /\ o.ensureTimer.nil
    /\ loopPc = "none"

\* C22: command.Run panics with 'no connection associated with request'
\* when the context holds no connection, before it looks at the verb: no
\* error response, no access check and no handler call for such a request
C22_NoConnectionPanicsFirst ==
    Served /\ ~runReq.hasConn =>
        /\ runRes.panic
        /\ runRes.msg = NoConnection
        /\ runRes.rsp = [kind |-> "none"]
        /\ runRes.log = <<>>

C22_Witness ==
    /\ Served
    /\ ~runReq.hasConn
    /\ runReq.Method = "DELETE"
    /\ runReq.credErr
    /\ runRes.panic
    /\ runRes.msg = NoConnection

Accepted == peer.accept.called
\* the address string of a connection without an identity
EmptyIdentityAddr == PidEq \o UidEq \o SocketEq \o Semi
\* the credentials of the accepted connection could not be resolved
Unresolved ==
    /\ peer.accept.lerr = "nil"
    /\ peer.accept.connType # "unix" \/ peer.accept.uerr # "nil"

\* C23: Accept never fails because of credential resolution: for a
\* connection type without peer credentials or a failed OS lookup it returns
\* a connection with an empty identity that ucrednetGet rejects with
\* errNoID; only the wrapped listener's error makes Accept fail
C23_AcceptNeverFailsOnCredentials ==
    Accepted =>
        /\ peer.accept.err # "nil" <=> peer.accept.lerr # "nil"
        /\ Unresolved =>
              /\ peer.accept.conn
              /\ peer.addr = EmptyIdentityAddr
              /\ Got => peer.got = errNoID

\* C23 amended: for a connection type without peer credentials Accept
\* returns a connection with an empty identity that ucrednetGet rejects with
\* errNoID; Accept fails when the wrapped listener's Accept fails and when
\* the OS lookup on a unix connection returns an error, and only then
C23_AcceptFailsOnListenerOrLookupError ==
    Accepted =>
        /\ peer.accept.err # "nil" <=>
              \/ peer.accept.lerr # "nil"
              \/ peer.accept.connType = "unix" /\ peer.accept.uerr # "nil"
        /\ peer.accept.err # "nil" <=> ~peer.accept.conn
        /\ peer.accept.lerr = "nil" /\ peer.accept.connType # "unix" =>
              /\ peer.accept.conn
              /\ peer.addr = EmptyIdentityAddr
              /\ Got => peer.got = errNoID

C23_Witness ==
    /\ Accepted
    /\ peer.accept.connType = "tcp"
    /\ peer.accept.uerr = "oopsie"
    /\ peer.accept.conn
    /\ peer.addr = EmptyIdentityAddr
    /\ peer.got = errNoID

\* C24: when the OS peer-credential lookup returns an error for a
\* connection accepted on a unix socket, Accept returns that same error
C24_LookupErrorIsReturned ==
    Accepted /\ peer.accept.lerr = "nil" /\ peer.accept.connType = "unix"
             /\ peer.accept.uerr # "nil" =>
        /\ peer.accept.err = peer.accept.uerr
        /\ ~peer.accept.conn

C24_Witness ==
    /\ Accepted
    /\ peer.accept.lerr = "nil"
    /\ peer.accept.connType = "unix"
    /\ peer.accept.uerr = "oopsie"
    /\ peer.accept.err = "oopsie"
    /\ peer.kind = "failed"

\* C25: Close on the credential listener is idempotent: every one of any
\* number of Close calls returns nil, so the Close in Daemon.Stop followed by
\* the one in the HTTP server's shutdown produces no error
C25_CloseIdempotent ==
    /\ \A i \in DOMAIN d.closeRet : d.closeRet[i] = "nil"
    /\ d.tombErr # "close"
    /\ StopReturned /\ dStop.result = "error" => d.tombErr = "serve"

C25_Witness ==
    /\ StopReturned
    /\ Len(d.closeRet) = MaxCloses
    /\ d.listener = "closed"
    /\ dStop.result = "nil"
    /\ \A i \in DOMAIN d.closeRet : d.closeRet[i] = "nil"

\* the header values that are a true boolean
TrueSpellings == {"1", "t", "T", "TRUE", "true", "True"}
\* Run got as far as the access check
ReachesAccess ==
    /\ Served
    /\ runReq.hasConn
    /\ ~runReq.credErr
    /\ Selected.rspf
    /\ Selected.access # "nil"

\* C26: the flag passed to the access checker is true iff the
\* allow-interaction header is present and parses as true; an absent header
\* or a value that is no boolean gives false, and a malformed value neither
\* makes Run return an error nor skips the access check
C26_AllowInteractionFlag ==
    ReachesAccess =>
        /\ Cardinality(AccessCalls) = 1
        /\ \A i \in AccessCalls :
              runRes.log[i].allowInteraction <=> runReq.allowHeader \in TrueSpellings
        /\ ~runRes.panic
        /\ runRes.rsp.kind = IF Selected.access = "deny" THEN "denied" ELSE "handler"

C26_Witness ==
    /\ ReachesAccess
    /\ runReq.allowHeader = "yes"
    /\ \E i \in AccessCalls : ~runRes.log[i].allowInteraction
    /\ runRes.rsp.kind = "handler"

\* C27: when the peer credential of the bound connection cannot be
\* resolved, Run returns a 500 internal error with the resolution error's
\* message, whatever the verb (also one without a handler), and calls
\* neither an access checker nor a handler
C27_CredentialErrorGives500 ==
    Served /\ runReq.hasConn /\ runReq.credErr =>
        /\ ~runRes.panic
        /\ runRes.rsp = [kind |-> "error", status |-> statusInternalErrorCode,
                         msg |-> ErrNoPeerCred]
        /\ runRes.log = <<>>

C27_Witness ==
    /\ Served
    /\ runReq.hasConn
    /\ runReq.credErr
    /\ runReq.Method = "DELETE"
    /\ runCmd.GET
    /\ runRes.rsp.kind = "error"
    /\ runRes.rsp.status = statusInternalErrorCode

\* C28: HandleRestart panics for every restart type other than
\* RestartSocket, without setting the restart flag or killing the daemon;
\* for RestartSocket it sets the flag and the daemon is dying
C28_OnlySocketRestartHandled ==
    [][RestartRequest =>
          IF op'.branch = "RestartSocket"
          THEN /\ ~panicked'
               /\ d'.restartSocket
               /\ d'.tomb # "alive"
          ELSE /\ panicked'
               /\ d'.restartSocket = d.restartSocket
               /\ d'.tomb = d.tomb
               /\ d' = d]_vars

C28_Witness ==
    /\ panicked
    /\ op = [name |-> "HandleRestart", branch |-> "RestartSystem"]
    /\ d.restartSocket
    /\ d.tomb = "dying"

SocketCalled == sock.ret.called

\* one of the inherited descriptors is a unix stream listener bound to the
\* manager's socket path
InheritedAtPath ==
    \E i \in DOMAIN sock.files :
        /\ sock.files[i].kind = "unixStream"
        /\ sock.files[i].addr = ManagerSocket

\* C29: GetUnixSocketListener reports activated exactly when an inherited
\* descriptor is a unix stream listener bound to the requested path; it
\* then returns that listener without probing, removing or binding, and
\* Daemon.CanStandby is true exactly when Start got activated = true
C29_ActivatedIffInheritedAtPath ==
    /\ SocketCalled =>
        /\ sock.ret.activated <=> InheritedAtPath
        /\ sock.ret.activated =>
            /\ sock.ret.err = "nil"
            /\ sock.ret.listener.kind = "inherited"
            /\ sock.ret.listener.fd \in DOMAIN sock.files
            /\ sock.files[sock.ret.listener.fd] =
                   [kind |-> "unixStream", addr |-> ManagerSocket]
            /\ ~sock.ret.probed
            /\ ~sock.ret.removed
            /\ ~sock.ret.bound
            /\ sock.file = sock.ret.before
    /\ DaemonCanStandby(d) <=> (d.started /\ sock.ret.activated)
    /\ d.started => SocketCalled /\ sock.ret.err = "nil"

C29_Witness ==
    /\ d.started
    /\ DaemonCanStandby(d)
    /\ sock.ret.activated
    /\ sock.ret.listener.fd = 2
    /\ sock.files[1] = [kind |-> "unixStream", addr |-> OtherSocket]
    /\ sock.file = "stale"

\* the probe dial to the socket path connects
ProbeConnects == sock.ret.before = "live" /\ ~sock.dialFails

\* C30: with no matching inherited descriptor and a probe dial that
\* connects, GetUnixSocketListener returns the "already in use" error and
\* no listener and leaves the socket file; the file is removed only when
\* the probe dial failed
C30_InUseSocketIsLeftAlone ==
    SocketCalled =>
        /\ ~InheritedAtPath /\ ProbeConnects =>
            /\ sock.ret.err = AlreadyInUse
            /\ sock.ret.listener = NoListener
            /\ ~sock.ret.activated
            /\ ~sock.ret.removed
            /\ ~sock.ret.bound
            /\ sock.file = "live"
            /\ d.startErr
        /\ sock.ret.removed =>
            /\ ~ProbeConnects
            /\ sock.ret.probed
            /\ ~sock.ret.dialed
            /\ sock.ret.before # "absent"

C30_Witness ==
    /\ SocketCalled
    /\ ~InheritedAtPath
    /\ sock.files # <<>>
    /\ ProbeConnects
    /\ sock.ret.err = AlreadyInUse
    /\ sock.file = "live"

\* C31: when there is no state file and the state directory does not exist,
\* overlord.New fails with an error and creates neither the directory nor
\* a state
C31_MissingDirectoryFailsFast ==
    [][New /\ fs.stateFile = "absent" /\ ~fs.dirExists =>
          /\ ovlNew' = "err"
          /\ ~fs'.dirExists]_vars

\* C32: an EnsureBefore that finds the recorded deadline elapsed re-arms
\* the timer with delay 0 and sets the deadline to now, for every duration
\* and also when the timer has already fired
C32_ElapsedAlwaysRescheduled ==
    [][EnsureBefore /\ ~o.ensureTimer.nil /\ o.ensureNext < now =>
          /\ o'.ensureTimer.active
          /\ o'.ensureTimer.when = now
          /\ o'.ensureNext = now]_vars

\* C32 amended: with the deadline elapsed, an EnsureBefore that finds the
\* timer still armed re-arms it with delay 0 and sets the deadline to now;
\* one that finds the timer already fired changes neither timer nor
\* deadline
C32_ElapsedRescheduledIfArmed ==
    [][EnsureBefore /\ ~o.ensureTimer.nil /\ o.ensureNext < now =>
          IF o.ensureTimer.active
          THEN /\ o'.ensureTimer.active
               /\ o'.ensureTimer.when = now
               /\ o'.ensureTimer.c = o.ensureTimer.c
               /\ o'.ensureNext = now
          ELSE o' = o]_vars

\* ensureBefore found the deadline elapsed and the timer fired, its tick
\* still in the channel, and returned
C32_Witness ==
    /\ op = [name |-> "ensureBefore", branch |-> "expired"]
    /\ o.ensureNext < now
    /\ ~o.ensureTimer.nil
    /\ ~o.ensureTimer.active
    /\ o.ensureTimer.c

LoopRunning == ~panicked /\ loopPc \in {"top", "ensure", "select"}

\* an EnsureBefore has returned since the last cycle began
EnsureRequested == op.name = "ensureBefore" /\ op.branch # "panic"

\* C33: with the loop running, EnsureBefore can be called while an ensure
\* cycle runs and from anywhere else without waiting; while the loop is in
\* a cycle or waiting, a tick is pending or the timer is armed for no later
\* than the earliest requested instant; and a new cycle follows
C33_EnsureBeforeWakesLoop ==
    /\ [](LoopRunning => ENABLED EnsureBefore)
    /\ [](LoopRunning /\ loopPc # "top" =>
             \/ o.ensureTimer.c
             \/ /\ o.ensureTimer.active
                /\ o.ensureTimer.when <= Max(hist.earliest, now))
    /\ (LoopRunning /\ EnsureRequested /\ hist.earliest <= MaxTime)
           ~> (op.name = "ensureTimerReset" /\ loopPc = "ensure")

\* EnsureBefore was called from inside a running cycle and brought the
\* deadline forward
C33_Witness ==
    /\ LoopRunning
    /\ loopPc = "ensure"
    /\ op = [name |-> "ensureBefore", branch |-> "earlier"]
    /\ o.ensureTimer.active
    /\ o.ensureTimer.when = hist.earliest
    /\ hist.earliest < MaxTime

\* C34: the loop taking a prune tick in its select runs prune and goes back
\* to the top of the loop; from there its only step is the start of a new
\* ensure cycle, which sets the deadline and the timer to now +
\* ensureInterval whatever EnsureBefore had requested; and that cycle
\* does start
C34_PruneTickStartsCycle ==
    /\ [][pruneTickC /\ ~pruneTickC' =>
             /\ loopPc = "select"
             /\ loopPc' = "top"
             /\ o'.didPrune
             /\ o'.ensureNext = o.ensureNext]_vars
    /\ [][loopPc = "top" /\ loopPc' # "top" =>
             /\ loopPc' = "ensure"
             /\ o'.ensureNext = now + ensureInterval
             /\ o'.ensureTimer.active
             /\ o'.ensureTimer.when = now + ensureInterval]_vars
    /\ (loopPc = "top") ~> (loopPc = "ensure" /\ op.name = "ensureTimerReset")

\* the loop has taken a prune tick while the timer, brought forward by
\* EnsureBefore, had not fired
C34_Witness ==
    /\ loopPc = "top"
    /\ hist.tickPruned
    /\ o.didPrune
    /\ op = [name |-> "ensureBefore", branch |-> "earlier"]
    /\ o.ensureTimer.active
    /\ ~o.ensureTimer.c
    /\ now < o.ensureTimer.when
    /\ o.ensureNext < now + ensureInterval

\* C35: in Daemon.Stop the Overlord is stopped and its lock file released
\* only once no connection is being served any more: they have drained, or
\* they were force-closed after the drain deadline
C35_OverlordStoppedAfterHttpEnded ==
    d.started /\ (o.stopped \/ o.stateFLock = "closed") => d.conns = {}

\* a request is being served
Serving == \E c \in Conns : d.reqs[c].inflight

\* C36: Daemon.Start calls Overlord.Loop before it starts serving, so
\* whenever a connection is tracked or a request is being served the ensure
\* timer exists, and an EnsureBefore issued while a request is being served
\* does not panic
C36_LoopStartedBeforeServing ==
    /\ [](d.serve = "serving" \/ d.conns # {} \/ Serving =>
             /\ ~o.ensureTimer.nil
             /\ loopPc # "none")
    /\ [][EnsureBefore /\ Serving =>
             /\ ~panicked'
             /\ op'.branch # "panic"]_vars

C36_Witness ==
    /\ Serving
    /\ d.started
    /\ op.name = "ensureBefore"
    /\ op.branch = "earlier"
    /\ ~panicked

SettleInProgress == settle.pc \in {"top", "cycle"}

\* C37: Settle panics at entry whenever an ensure timer exists, which is
\* the case once Loop was started and while a Settle is in progress, and
\* touches nothing then; otherwise it creates its timer; when Settle
\* returns its timer is stopped and the field is nil again
C37_SettleExclusive ==
    /\ [][SettleAnyTime =>
             IF ~o.ensureTimer.nil
             THEN panicked' /\ o' = o /\ settle' = settle
             ELSE /\ ~panicked'
                  /\ settle'.pc = "top"
                  /\ ~o'.ensureTimer.nil]_vars
    /\ [](loopPc # "none" \/ SettleInProgress => ~o.ensureTimer.nil)
    /\ [][settle.pc # "returned" /\ settle'.pc = "returned" =>
             /\ o'.ensureTimer.nil
             /\ ~o'.ensureTimer.active]_vars

\* a second Settle has entered after the first one returned on its timeout
C37_Witness ==
    /\ settle.pc = "top"
    /\ ~settle.ran
    /\ hist.lastCycle = "timeout"
    /\ ~panicked
    /\ ~o.ensureTimer.nil
    /\ loopPc = "none"

\* the errors of the failed cycles, in the order the cycles ran
CycleErrs ==
    [i \in DOMAIN settle.outcomes |->
        IF settle.outcomes[i] = "ensureError" THEN "manager error"
        ELSE "ensure error"]

\* C38: Settle returns nil exactly when it converged and no cycle failed;
\* otherwise it returns the errors of its cycles in order, followed on a
\* timeout by "Settle is not converging", which is returned alone when no
\* cycle failed
C38_SettleResult ==
    settle.pc = "returned" =>
        /\ settle.result = <<>> <=> (settle.converged /\ settle.outcomes = <<>>)
        /\ settle.converged => settle.result = CycleErrs
        /\ ~settle.converged => settle.result = Append(CycleErrs, NotConverging)

\* Settle timed out after a cycle that returned a plain error and a later
\* one that returned an *ensureError
C38_Witness ==
    /\ settle.pc = "returned"
    /\ ~settle.converged
    /\ settle.outcomes = <<"error", "ensureError">>
    /\ settle.result = <<"ensure error", "manager error", NotConverging>>

CouldNotLock == "fatal: could not lock state file"

\* an earlier New of this process took the lock and failed
FailedHoldingLock ==
    ovlNew = "err" /\ (o.stateFLock = "locked" \/ hist.lockReleases > 0)

LoopPruning == loopPc = "pruning"
StopPruning == stopPc = "pruning"

\* C40: Prune never runs at the same time as an ensure cycle or as another
\* Prune, and always with the state's lock held by the goroutine that runs
\* it; the loop goroutine runs it only between two cycles (after the select
\* that follows one, before the top of the next); Stop runs it only after
\* the loop goroutine has exited and before the participants are stopped
\* and the file lock is released.
C40_PruneExclusive ==
    /\ [](~(LoopPruning /\ StopPruning))
    /\ [](StopPruning => loopPc = "exited" /\ o.loopTomb = "dead")
    /\ [](LoopPruning => o.stLock = "loop")
    /\ [](StopPruning => o.stLock = "stop" /\ ~o.stopped /\ o.stateFLock = "locked")
    /\ [][loopPc' = "prune" /\ loopPc # "prune" => loopPc = "select"]_vars
    /\ [][LoopPruning /\ ~LoopPruning' => loopPc' = "top" /\ o'.didPrune]_vars
    /\ [][StopPruning /\ ~StopPruning' => stopPc' = "engine" /\ o'.didPrune
            /\ ~o'.stopped /\ o'.stateFLock = "locked"]_vars
    /\ [][o'.didPrune /\ ~o.didPrune => LoopPruning \/ StopPruning]_vars

\* Stop is inside st.Prune, the loop goroutine having completed a cycle
\* and exited
C40_Witness ==
    /\ StopPruning
    /\ o.stLock = "stop"
    /\ o.ensureRun = 1
    /\ loopPc = "exited"

====
